---- MODULE Spec2Model ----
(***************************************************************************)
(* AgentOS: the durable kernel (one WAL in front of the thread table, the *)
(* context store and the message journal) and the AgentPipeline that      *)
(* gates injection by security profile.                                   *)
(*                                                                         *)
(* Kernel (src/src/kernel/mod.rs) and AgentPipeline (src/src/pipeline.rs)  *)
(* are translated from their code.  The stores behind the kernel           *)
(* (thread_table, context_store, journal, wal) and the SecurityResolver    *)
(* and Organism behind the pipeline are modelled from their description    *)
(* in spec.md and from the way the kernel, the pipeline and their tests    *)
(* use them.                                                               *)
(*                                                                         *)
(* A WAL payload is a tuple of its null-separated fields.  A UUID is a     *)
(* natural number; uuidCtr is the number of UUIDs generated so far by any  *)
(* process, so that a freshly generated UUID differs from every UUID       *)
(* generated before it, in this run or in an earlier one.                  *)
(***************************************************************************)
EXTENDS Naturals, Integers, Sequences, FiniteSets, TLC

\* ---------------------------------------------------------------- bounds
MaxCalls == 5
MaxFaults == 1

\* ---------------------------------------------------------------- inputs
NONE == 0
OrgNames == {"org"}
ProfileNames == {"admin", "public"}
ListenerNames == {"echo", "sink"}
Senders == {"console"}
MessageIds == {"m1", "m2"}

VARIABLES
    wal,        \* kernel.wal on disk: the sequence of records written so far
    threads,    \* ThreadTable: UUID -> chain (sequence of segments)
    root,       \* ThreadTable: the root UUID, or NONE
    contexts,   \* ContextStore: the thread ids that have a context
    journal,    \* Journal: message id -> entry
    up,         \* whether a Kernel value is open in a live process
    uuidCtr,    \* number of UUIDs generated so far
    calls,      \* number of operations performed
    faults,     \* number of injected I/O failures and crashes
    lastOp,     \* the last kernel call: its arguments and what it returned
    expected,   \* the stores a reopen is compared with
    how,        \* how the process went down: "none", "close", "reclose",
                \* "after_wal", "mid_batch"
    born,       \* UUID returned by dispatch_message -> the call that returned it
    replica     \* a second kernel opened on a copy of the same WAL

kvars == <<wal, threads, root, contexts, journal, up, uuidCtr, calls, faults,
           lastOp, expected, how, born, replica>>

VARIABLES
    organism,    \* AgentPipeline.organism: the configuration it reports
    security,    \* AgentPipeline.security: the compiled (profile, listener) table
    compiled,    \* the organism the table was last compiled from
    inflight,    \* envelopes inside the inner pipeline, not yet handled
    handled,     \* envelopes a listener's handler has been invoked for
    lastInject,  \* the last inject call: its arguments and what it returned
    lastReload,  \* what the last reload returned
    failed       \* the listeners whose handler has returned an error

pvars == <<organism, security, compiled, inflight, handled, lastInject, lastReload,
           failed>>

VARIABLES
    lock,        \* the task that holds the kernel's Mutex, or NOBODY
    task,        \* task -> the kernel call it is in and how far the call has got
    jlog,        \* the message ids in the order log_dispatch_simple recorded them
    appliedOps   \* number of kernel calls whose mutators have run

tvars == <<lock, task, jlog, appliedOps>>

VARIABLES
    index,       \* EmbeddingIndex: its entries (name, embedding) and its threshold
    lastSearch   \* the last search_filtered call: its arguments and its result

svars == <<index, lastSearch>>

VARIABLES
    tool_metadata,  \* SemanticRouter: tool name -> ToolMetadata
    form_filler,    \* SemanticRouter: the form-fill strategy it was built with
    lastRoute,      \* the last call of route: its arguments, what it called, its decision
    engineLock      \* the task that holds the Mutex of the SharedEngine, or NOBODY

rvars == <<tool_metadata, form_filler, lastRoute, engineLock>>

VARIABLES
    inventory,   \* ContextInventory of the thread the handlers work for: its segments
    librarian,   \* LlmHandler: whether it was built with a Librarian
    libLock,     \* the handler task that holds the Librarian's Mutex, or NOBODY
    poolLock,    \* the handler task that holds the LlmPool's Mutex, or NOBODY
    curation,    \* the call of curate in progress, or the last one
    handler      \* handler task -> how far its call of handle has got

lvars == <<inventory, librarian, libLock, poolLock, curation, handler>>

yvars == <<rvars, lvars>>

VARIABLES
    port_listeners,  \* organism.listeners().values(): the listeners with their ports
    builder          \* AgentPipelineBuilder: how far the build has got

bvars == <<port_listeners, builder>>

VARIABLES
    lastCosine,   \* the last call of cosine_similarity: its arguments and its result
    lastFill,     \* the last call of CloudFormFiller::fill on a filler of its own
    il,           \* an InputLine on its own, with the last operation called on it
    app,          \* the TuiApp that handle_key works on
    pm,           \* a PortManager on its own: its allocations and its last declare
    filler        \* a task in CloudFormFiller::fill over the LlmPool of the handlers

uvars == <<lastCosine, lastFill, il, app, pm, filler>>

xvars == <<tvars, svars, yvars, bvars, uvars>>

vars == <<kvars, pvars, xvars>>

\* The three stores as one value.
Stores(t, r, c, j) == [threads |-> t, root |-> r, contexts |-> c, journal |-> j]

EmptyFn == [x \in {} |-> NONE]

\* ThreadTable::open, ContextStore::open, Journal::open on a data directory:
\* the WAL alone is authoritative and the stores start empty.
EmptyStores == Stores(EmptyFn, NONE, {}, EmptyFn)

\* No second kernel is open.
NoReplica == [open |-> FALSE, stores |-> EmptyStores]

NoOp == [op |-> "none", result |-> "none", uuid |-> NONE, thread_id |-> NONE,
         to |-> "", message_id |-> "", chain |-> <<>>, seq |-> 0]

\* ------------------------------------------------------------ WAL records
WalEntry(t, p) == [type |-> t, payload |-> p]

\* A record whose bytes were only partly written: its CRC does not match.
TornRecord == [type |-> "Torn", payload |-> <<>>]

\* Wal::replay: the intact records in order; the first record failing its
\* CRC ends the replay (the tail is truncated to the last good boundary).
RECURSIVE IntactPrefix(_)
IntactPrefix(file) ==
    IF file = <<>> \/ Head(file).type = "Torn" THEN <<>>
    ELSE <<Head(file)>> \o IntactPrefix(Tail(file))

WalReplay(file) == IntactPrefix(file)

\* ------------------------------------------------------------ ThreadTable
\* initialize_root(org, profile): the root chain is the organism's name.
ThreadInitRoot(t, uuid, org) == (uuid :> <<org>>) @@ t

\* The chain a UUID names; an unknown UUID names the empty chain.
ChainOf(t, uuid) == IF uuid \in DOMAIN t THEN t[uuid] ELSE <<>>

\* extend_chain(parent, listener): a child chain that appends the listener,
\* under the fresh UUID new.
ExtendChain(t, parent, to, new) == (new :> Append(ChainOf(t, parent), to)) @@ t

\* peek_prune(uuid): what prune_for_response would return, without applying
\* it.  None for a UUID not in the table and for a chain with no parent.
PeekPrune(t, uuid) ==
    IF uuid \in DOMAIN t /\ Len(t[uuid]) > 1
    THEN [some |-> TRUE, target |-> t[uuid][Len(t[uuid]) - 1]]
    ELSE [some |-> FALSE, target |-> ""]

\* prune_for_response(uuid): the chain named by uuid is destroyed.
PruneForResponse(t, uuid) ==
    IF PeekPrune(t, uuid).some THEN [x \in DOMAIN t \ {uuid} |-> t[x]] ELSE t

\* ----------------------------------------------------------- ContextStore
ContextCreate(c, thread_id) == c \cup {thread_id}

ContextRelease(c, thread_id) == c \ {thread_id}

ContextExists(c, thread_id) == thread_id \in c

\* ---------------------------------------------------------------- Journal
JournalEntry(thread_id, from, to, status) ==
    [thread_id |-> thread_id, from |-> from, to |-> to, status |-> status]

\* log_dispatch_simple: the entry of message_id, in status Dispatched.
LogDispatchSimple(j, message_id, thread_id, from, to) ==
    (message_id :> JournalEntry(thread_id, from, to, "Dispatched")) @@ j

\* mark_delivered_by_thread: every Dispatched entry recorded on thread_id.
MarkDeliveredByThread(j, thread_id) ==
    [m \in DOMAIN j |->
        IF j[m].thread_id = thread_id /\ j[m].status = "Dispatched"
        THEN [j[m] EXCEPT !.status = "Delivered"]
        ELSE j[m]]

FindUndelivered(j) == {m \in DOMAIN j : j[m].status = "Dispatched"}

\* -------------------------------------------------------- apply_wal_entry
\* A replaying kernel: the three stores and the UUIDs generated so far.
\* Each store applies the records of its own types and ignores the others.
ThreadsApplyWalEntry(K, e) ==
    CASE e.type = "ThreadInitRoot" ->
            [K EXCEPT !.threads = ThreadInitRoot(K.threads, e.payload[1], e.payload[2]),
                      !.root = e.payload[1]]
      [] e.type = "ThreadExtend" ->
            [K EXCEPT !.threads = ExtendChain(K.threads, e.payload[1], e.payload[2], K.ctr + 1),
                      !.ctr = K.ctr + 1]
      [] e.type = "ThreadPrune" ->
            [K EXCEPT !.threads = PruneForResponse(K.threads, e.payload[1])]
      [] OTHER -> K

ContextsApplyWalEntry(K, e) ==
    CASE e.type = "ContextAllocate" ->
            [K EXCEPT !.contexts = ContextCreate(K.contexts, e.payload[1])]
      [] e.type = "ContextRelease" ->
            [K EXCEPT !.contexts = ContextRelease(K.contexts, e.payload[1])]
      [] OTHER -> K

JournalApplyWalEntry(K, e) ==
    CASE e.type = "JournalDispatched" ->
            [K EXCEPT !.journal = LogDispatchSimple(K.journal, e.payload[1],
                                    e.payload[2], e.payload[3], e.payload[4])]
      [] e.type = "JournalDelivered" ->
            [K EXCEPT !.journal = MarkDeliveredByThread(K.journal, e.payload[1])]
      [] OTHER -> K

\* ----------------------------------------------------------------- Kernel
KStores == Stores(threads, root, contexts, journal)

\* Kernel::open, the body of the replay loop: the record goes to each store
\* in turn.
ApplyWalEntry(K, e) ==
    JournalApplyWalEntry(ContextsApplyWalEntry(ThreadsApplyWalEntry(K, e), e), e)

\* Kernel::open, the replay loop.
RECURSIVE KernelReplay(_, _)
KernelReplay(entries, K) ==
    IF entries = <<>> THEN K
    ELSE KernelReplay(Tail(entries), ApplyWalEntry(K, Head(entries)))

\* The stores Kernel::open builds from a WAL file, and the UUID count after.
OpenFrom(file, ctr) ==
    KernelReplay(WalReplay(file), [threads |-> EmptyFn, root |-> NONE,
                                   contexts |-> {}, journal |-> EmptyFn, ctr |-> ctr])

WithoutCtr(K) == Stores(K.threads, K.root, K.contexts, K.journal)

\* The batch dispatch_message builds.
DispatchBatch(from, to, thread_id, message_id) ==
    << WalEntry("ThreadExtend", <<thread_id, to>>),
       WalEntry("ContextAllocate", <<thread_id>>),
       WalEntry("JournalDispatched", <<message_id, thread_id, from, to>>) >>

\* The batch prune_thread builds: all three records carry the pruned thread's id.
PruneBatch(thread_id) ==
    << WalEntry("ThreadPrune", <<thread_id>>),
       WalEntry("ContextRelease", <<thread_id>>),
       WalEntry("JournalDelivered", <<thread_id>>) >>

\* The process is gone: nothing of the in-memory stores survives.
Down(reason, exp) ==
    /\ up' = FALSE
    /\ threads' = EmptyFn
    /\ root' = NONE
    /\ contexts' = {}
    /\ journal' = EmptyFn
    /\ lastOp' = [NoOp EXCEPT !.seq = calls + 1]
    /\ how' = reason
    /\ expected' = exp
    /\ replica' = NoReplica
    /\ born' = born

Forget == how' = "none" /\ expected' = EmptyStores /\ replica' = NoReplica

KernelOpen ==
    /\ ~up
    /\ LET K == OpenFrom(wal, uuidCtr) IN
        /\ threads' = K.threads
        /\ root' = K.root
        /\ contexts' = K.contexts
        /\ journal' = K.journal
        /\ uuidCtr' = K.ctr
    /\ wal' = WalReplay(wal)
    /\ up' = TRUE
    /\ lastOp' = [NoOp EXCEPT !.op = "open", !.seq = calls]
    /\ UNCHANGED <<calls, faults, expected, how, born, replica>>

\* A second process opens a copy of the data directory the kernel has just
\* been opened on: Kernel::open again, on the same WAL.
ReplicaOpen ==
    /\ up
    /\ lastOp.op = "open"
    /\ ~replica.open
    /\ LET K == OpenFrom(wal, uuidCtr) IN
        /\ replica' = [open |-> TRUE, stores |-> WithoutCtr(K)]
        /\ uuidCtr' = K.ctr
    /\ UNCHANGED <<wal, threads, root, contexts, journal, up, calls, faults,
                   lastOp, expected, how, born>>

\* The Kernel value is dropped (the end of a session) and the process ends.
\* how tells a session that changed something ("close") from one that only
\* opened the kernel and dropped it again ("reclose").
KernelClose ==
    /\ up
    /\ calls < MaxCalls
    /\ calls' = calls + 1
    /\ Down(IF lastOp.op = "open" THEN "reclose" ELSE "close", KStores)
    /\ UNCHANGED <<wal, uuidCtr, faults>>

\* initialize_root: the mutator runs, then the record is appended.  The
\* kernel does not look whether there is a root: a later call runs the
\* mutator again, which makes a root chain under a new UUID, and appends
\* another ThreadInitRoot record.
KernelInitializeRoot(org, profile, walFails) ==
    /\ up
    /\ calls < MaxCalls
    /\ walFails => faults < MaxFaults
    /\ calls' = calls + 1
    /\ faults' = IF walFails THEN faults + 1 ELSE faults
    /\ uuidCtr' = uuidCtr + 1
    /\ threads' = ThreadInitRoot(threads, uuidCtr + 1, org)
    /\ root' = uuidCtr + 1
    /\ wal' = IF walFails THEN wal
              ELSE Append(wal, WalEntry("ThreadInitRoot", <<uuidCtr + 1, org, profile>>))
    /\ lastOp' = [NoOp EXCEPT !.op = "initialize_root", !.seq = calls + 1,
                              !.result = IF walFails THEN "err" ELSE "ok",
                              !.uuid = IF walFails THEN NONE ELSE uuidCtr + 1]
    /\ Forget
    /\ UNCHANGED <<contexts, journal, up, born>>

\* dispatch_message(from, to, thread_id, message_id).  fault is the I/O
\* failure met on the way: "wal" (append_batch fails), "ctx" (contexts.create
\* fails) or "none".
KernelDispatchMessage(from, to, thread_id, message_id, fault) ==
    /\ up
    /\ calls < MaxCalls
    /\ fault # "none" => faults < MaxFaults
    /\ calls' = calls + 1
    /\ faults' = IF fault = "none" THEN faults ELSE faults + 1
    /\ lastOp' = [op |-> "dispatch", result |-> IF fault = "none" THEN "ok" ELSE "err",
                  uuid |-> IF fault = "none" THEN uuidCtr + 1 ELSE NONE,
                  thread_id |-> thread_id, to |-> to, message_id |-> message_id,
                  chain |-> ChainOf(threads, thread_id), seq |-> calls + 1]
    /\ Forget
    /\ IF fault = "wal"
       THEN \* self.wal.append_batch(&batch)? returns before any mutator
            UNCHANGED <<wal, threads, contexts, journal, uuidCtr>>
       ELSE /\ wal' = wal \o DispatchBatch(from, to, thread_id, message_id)
            /\ threads' = ExtendChain(threads, thread_id, to, uuidCtr + 1)
            /\ uuidCtr' = uuidCtr + 1
            /\ IF fault = "ctx"
               THEN \* self.contexts.create(thread_id)? returns after extend_chain
                    UNCHANGED <<contexts, journal>>
               ELSE /\ contexts' = ContextCreate(contexts, thread_id)
                    /\ journal' = LogDispatchSimple(journal, message_id, thread_id, from, to)
    /\ born' = IF fault = "none"
               THEN (uuidCtr + 1 :> [message_id |-> message_id, thread_id |-> thread_id]) @@ born
               ELSE born
    /\ UNCHANGED <<root, up>>

\* prune_thread as it would be without the peek_prune test: the batch is
\* appended and the mutators run whatever the thread table holds.
KernelPruneThread_NoPeek(thread_id, fault) ==
    /\ up
    /\ calls < MaxCalls
    /\ fault = "none"
    /\ calls' = calls + 1
    /\ Forget
    /\ lastOp' = [NoOp EXCEPT !.op = "prune", !.thread_id = thread_id,
                              !.result = IF PeekPrune(threads, thread_id).some
                                         THEN "some" ELSE "none",
                              !.chain = ChainOf(threads, thread_id),
                              !.seq = calls + 1]
    /\ wal' = wal \o PruneBatch(thread_id)
    /\ threads' = PruneForResponse(threads, thread_id)
    /\ contexts' = ContextRelease(contexts, thread_id)
    /\ journal' = MarkDeliveredByThread(journal, thread_id)
    /\ UNCHANGED <<root, up, uuidCtr, born, faults>>

\* prune_thread(thread_id).  fault: "wal" (append_batch fails), "ctx"
\* (contexts.release fails) or "none".
KernelPruneThread(thread_id, fault) ==
    /\ up
    /\ calls < MaxCalls
    /\ calls' = calls + 1
    /\ Forget
    /\ IF ~PeekPrune(threads, thread_id).some
       THEN \* return Ok(None) before the WAL is written
            /\ fault = "none"
            /\ lastOp' = [NoOp EXCEPT !.op = "prune", !.result = "none",
                                      !.thread_id = thread_id, !.seq = calls + 1]
            /\ UNCHANGED <<wal, threads, contexts, journal, faults>>
       ELSE /\ fault # "none" => faults < MaxFaults
            /\ faults' = IF fault = "none" THEN faults ELSE faults + 1
            /\ lastOp' = [NoOp EXCEPT !.op = "prune", !.thread_id = thread_id,
                                      !.result = IF fault = "none" THEN "some" ELSE "err",
                                      !.chain = ChainOf(threads, thread_id),
                                      !.seq = calls + 1]
            /\ IF fault = "wal"
               THEN UNCHANGED <<wal, threads, contexts, journal>>
               ELSE /\ wal' = wal \o PruneBatch(thread_id)
                    /\ threads' = PruneForResponse(threads, thread_id)
                    /\ IF fault = "ctx"
                       THEN UNCHANGED <<contexts, journal>>
                       ELSE /\ contexts' = ContextRelease(contexts, thread_id)
                            /\ journal' = MarkDeliveredByThread(journal, thread_id)
    /\ UNCHANGED <<root, up, uuidCtr, born>>

\* The stores a completed dispatch leaves.
AfterDispatch(from, to, thread_id, message_id) ==
    Stores(ExtendChain(threads, thread_id, to, uuidCtr + 1), root,
           ContextCreate(contexts, thread_id),
           LogDispatchSimple(journal, message_id, thread_id, from, to))

\* The stores a completed prune leaves.
AfterPrune(thread_id) ==
    Stores(PruneForResponse(threads, thread_id), root,
           ContextRelease(contexts, thread_id),
           MarkDeliveredByThread(journal, thread_id))

\* The process is killed between append_batch and the first mutator.
DispatchCrashAfterWal(from, to, thread_id, message_id) ==
    /\ up
    /\ calls < MaxCalls
    /\ faults < MaxFaults
    /\ calls' = calls + 1
    /\ faults' = faults + 1
    /\ wal' = wal \o DispatchBatch(from, to, thread_id, message_id)
    /\ Down("after_wal", AfterDispatch(from, to, thread_id, message_id))
    /\ UNCHANGED uuidCtr

PruneCrashAfterWal(thread_id) ==
    /\ up
    /\ calls < MaxCalls
    /\ faults < MaxFaults
    /\ PeekPrune(threads, thread_id).some
    /\ calls' = calls + 1
    /\ faults' = faults + 1
    /\ wal' = wal \o PruneBatch(thread_id)
    /\ Down("after_wal", AfterPrune(thread_id))
    /\ UNCHANGED uuidCtr

\* What a batch leaves in the file when the process is killed while
\* append_batch writes it: k whole records, then possibly a torn one.
PartialBatch(batch, k, torn) ==
    SubSeq(batch, 1, k) \o (IF torn THEN <<TornRecord>> ELSE <<>>)

DispatchCrashMidBatch(from, to, thread_id, message_id, k, torn) ==
    /\ up
    /\ calls < MaxCalls
    /\ faults < MaxFaults
    /\ k > 0 \/ torn
    /\ calls' = calls + 1
    /\ faults' = faults + 1
    /\ wal' = wal \o PartialBatch(DispatchBatch(from, to, thread_id, message_id), k, torn)
    /\ Down("mid_batch", KStores)
    /\ UNCHANGED uuidCtr

PruneCrashMidBatch(thread_id, k, torn) ==
    /\ up
    /\ calls < MaxCalls
    /\ faults < MaxFaults
    /\ PeekPrune(threads, thread_id).some
    /\ k > 0 \/ torn
    /\ calls' = calls + 1
    /\ faults' = faults + 1
    /\ wal' = wal \o PartialBatch(PruneBatch(thread_id), k, torn)
    /\ Down("mid_batch", KStores)
    /\ UNCHANGED uuidCtr

KInit ==
    /\ wal = <<>>
    /\ threads = EmptyFn
    /\ root = NONE
    /\ contexts = {}
    /\ journal = EmptyFn
    /\ up = TRUE
    /\ uuidCtr = 0
    /\ calls = 0
    /\ faults = 0
    /\ lastOp = NoOp
    /\ expected = EmptyStores
    /\ how = "none"
    /\ born = EmptyFn
    /\ replica = NoReplica

Faults == {"none", "wal", "ctx"}

\* ================================================================ pipeline
MaxInflight == 1

Org(name, listeners, profiles) ==
    [name |-> name, listeners |-> listeners, profiles |-> profiles]

\* test_organism(): listeners echo and sink; admin may reach both, public echo.
TestOrganism ==
    Org("test-org", {"echo", "sink"},
        [p \in {"admin", "public"} |->
            IF p = "admin" THEN {"echo", "sink"} ELSE {"echo"}])

\* The organisms a reload is tried with.
ReloadOrganisms ==
    { \* hot_reload_updates_security: public gains sink
      Org("test-org-v2", {"echo", "sink"},
          [p \in {"admin", "public"} |-> {"echo", "sink"}]),
      \* sink is removed everywhere
      Org("no-sink", {"echo"}, [p \in {"admin", "public"} |-> {"echo"}]),
      \* public has an empty allow-list
      Org("closed", {"echo", "sink"},
          [p \in {"admin", "public"} |-> IF p = "admin" THEN {"echo", "sink"} ELSE {}]),
      \* the public profile is removed
      Org("admin-only", {"echo", "sink"}, [p \in {"admin"} |-> {"echo", "sink"}]),
      \* public lists sink, which the organism no longer declares
      Org("dangling", {"echo"},
          [p \in {"admin", "public"} |-> IF p = "admin" THEN {"echo"} ELSE {"echo", "sink"}]) }

\* The listeners the builder registered a handler for (fixed at build).
Registered == {"echo", "sink"}

\* ------------------------------------------------------- SecurityResolver
\* The table is compiled only from an organism whose profiles list declared
\* listeners.
Compilable(org) ==
    \A p \in DOMAIN org.profiles : org.profiles[p] \subseteq org.listeners

\* from_organism / rebuild: one bit per (profile, listener), set when the
\* listener is in the profile's allow-list.
CompileTable(org) ==
    {pl \in (DOMAIN org.profiles) \X org.listeners : pl[2] \in org.profiles[pl[1]]}

\* can_reach(profile, target): the table lookup; anything absent is false.
CanReach(table, profile, target) == <<profile, target>> \in table

\* ------------------------------------------------------- the inner pipeline
\* An envelope names its own target listener in <to>.  via and gate record
\* how it entered: through inject_checked (and what can_reach said) or
\* through inject_raw.
Envelope(to, via, gate) == [to |-> to, via |-> via, gate |-> gate]

\* Pipeline::inject: the envelope is queued for the listener it names.
PipelineInject(env) == inflight' = inflight \cup {env}

NoInject == [via |-> "none", profile |-> "", target |-> "", to |-> "",
             result |-> "none", listed |-> FALSE, tick |-> 0]

\* The profile lists the listener in the organism the table was compiled from.
Listed(profile, target) ==
    profile \in DOMAIN compiled.profiles /\ target \in compiled.profiles[profile]

\* ---------------------------------------------------------- AgentPipeline
\* The gate as it would be if an empty allow-list meant "everyone".
GateAllows_EmptyIsOpen(profile, target) ==
    \/ CanReach(security, profile, target)
    \/ \A l \in ListenerNames : ~CanReach(security, profile, l)

\* The security check of inject_checked.
GateAllows(profile, target) == CanReach(security, profile, target)

\* Room in the inner pipeline for one more envelope.
Room(env) == env \in inflight \/ Cardinality(inflight) < MaxInflight

\* inject_checked as it would be if the envelope were injected first and
\* the security error returned afterwards.
InjectChecked_InjectFirst(to, profile, target) ==
    LET allowed == CanReach(security, profile, target)
        env == Envelope(to, "checked", IF allowed THEN "passed" ELSE "failed")
    IN  /\ Room(env)
        /\ PipelineInject(env)
        /\ lastInject' = [via |-> "checked", profile |-> profile, target |-> target,
                          to |-> to, listed |-> Listed(profile, target),
                          tick |-> 1 - lastInject.tick,
                          result |-> IF allowed THEN "ok" ELSE "denied"]
        /\ UNCHANGED <<organism, security, compiled, handled, lastReload>>
        /\ UNCHANGED <<kvars, xvars, failed>>

\* inject_checked(raw, _thread_id, profile, target): raw is an envelope
\* addressed to `to`.
InjectChecked(to, profile, target) ==
    LET env == Envelope(to, "checked",
                   IF CanReach(security, profile, target) THEN "passed" ELSE "failed")
        call == [via |-> "checked", profile |-> profile, target |-> target, to |-> to,
                 listed |-> Listed(profile, target), tick |-> 1 - lastInject.tick,
                 result |-> "none"]
    IN  /\ IF ~GateAllows(profile, target)
           THEN /\ lastInject' = [call EXCEPT !.result = "denied"]
                /\ UNCHANGED inflight
           ELSE /\ Room(env)
                /\ PipelineInject(env)
                /\ lastInject' = [call EXCEPT !.result = "ok"]
        /\ UNCHANGED <<organism, security, compiled, handled, lastReload>>
        /\ UNCHANGED <<kvars, xvars, failed>>

\* inject_raw(raw): no security check.
InjectRaw(to) ==
    LET env == Envelope(to, "raw", "none") IN
    /\ Room(env)
    /\ PipelineInject(env)
    /\ lastInject' = [via |-> "raw", profile |-> "", target |-> "", to |-> to,
                      result |-> "ok", listed |-> FALSE, tick |-> 1 - lastInject.tick]
    /\ UNCHANGED <<organism, security, compiled, handled, lastReload>>
    /\ UNCHANGED <<kvars, xvars, failed>>

\* The inner pipeline hands a queued envelope to the handler of the
\* listener it is addressed to; the handler returns a response ("ok") or an
\* error ("err").
\* Nothing on this path reaches the kernel.
HandlerStep(env, outcome) ==
    /\ env \in inflight
    /\ env.to \in Registered
    /\ inflight' = inflight \ {env}
    /\ handled' = handled \cup {env}
    /\ failed' = IF outcome = "err" THEN failed \cup {env.to} ELSE failed
    /\ UNCHANGED <<organism, security, compiled, lastInject, lastReload>>
    /\ UNCHANGED <<kvars, xvars>>

\* Organism::apply_config: the configuration is replaced; the event lists
\* what was added and removed.
ReloadEvent(old, new) ==
    [listeners_added |-> new.listeners \ old.listeners,
     listeners_removed |-> old.listeners \ new.listeners,
     profiles_added |-> DOMAIN new.profiles \ DOMAIN old.profiles,
     profiles_removed |-> DOMAIN old.profiles \ DOMAIN new.profiles]

\* reload(new_organism): apply_config, then security.rebuild(&self.organism)?
Reload(new) ==
    /\ organism' = new
    /\ IF Compilable(new)
       THEN /\ security' = CompileTable(new)
            /\ compiled' = new
            /\ lastReload' = [result |-> "ok", event |-> ReloadEvent(organism, new)]
       ELSE /\ UNCHANGED <<security, compiled>>
            /\ lastReload' = [result |-> "err", event |-> ReloadEvent(organism, organism)]
    /\ UNCHANGED <<inflight, handled, lastInject>>
    /\ UNCHANGED <<kvars, xvars, failed>>

\* AgentPipeline::initialize_root: the kernel's, under the kernel lock.
PipelineInitializeRoot(org, profile, walFails) ==
    /\ KernelInitializeRoot(org, profile, walFails)
    /\ UNCHANGED <<pvars, xvars>>

\* ------------------------------------------- tasks sharing the kernel handle
\* Tasks reach the kernel through AgentPipeline::kernel(), a clone of the
\* Arc<Mutex<Kernel>>: a task locks the Mutex, calls dispatch_message or
\* prune_thread on the guard, and drops the guard.  A call is followed
\* record by record and mutator by mutator, so that what another task could
\* do in between is visible.
MaxTaskOps == 1

Tasks == {"t1", "t2"}

NOBODY == "nobody"

Idle(n) == [pc |-> "idle", op |-> "none", from |-> "", to |-> "", thread_id |-> NONE,
            message_id |-> "", written |-> 0, applied |-> FALSE, ops |-> n]

\* The batch of the call task t is in.
TaskBatch(t) ==
    IF task[t].op = "dispatch"
    THEN DispatchBatch(task[t].from, task[t].to, task[t].thread_id, task[t].message_id)
    ELSE PruneBatch(task[t].thread_id)

\* kernel.lock().await as it would be if the Mutex let a second task in.
TaskLock_NoMutex(t, op, from, to, thread_id, message_id) ==
    /\ up
    /\ root # NONE
    /\ task[t].pc = "idle"
    /\ task[t].ops < MaxTaskOps
    /\ lock' = t
    /\ task' = [task EXCEPT ![t] =
                  [pc |-> "held", op |-> op, from |-> from, to |-> to,
                   thread_id |-> thread_id, message_id |-> message_id,
                   written |-> 0, applied |-> FALSE, ops |-> task[t].ops + 1]]
    /\ UNCHANGED <<jlog, appliedOps>>
    /\ UNCHANGED <<kvars, pvars, svars, yvars, bvars, uvars>>

\* kernel.lock().await, then the call on the guard begins: the lock is
\* granted only when no task holds it.
TaskLock(t, op, from, to, thread_id, message_id) ==
    /\ up
    /\ root # NONE
    /\ task[t].pc = "idle"
    /\ task[t].ops < MaxTaskOps
    /\ lock = NOBODY
    /\ lock' = t
    /\ task' = [task EXCEPT ![t] =
                  [pc |-> "held", op |-> op, from |-> from, to |-> to,
                   thread_id |-> thread_id, message_id |-> message_id,
                   written |-> 0, applied |-> FALSE, ops |-> task[t].ops + 1]]
    /\ UNCHANGED <<jlog, appliedOps>>
    /\ UNCHANGED <<kvars, pvars, svars, yvars, bvars, uvars>>

\* prune_thread: peek_prune is None, the call returns Ok(None).
TaskPeekNone(t) ==
    /\ task[t].pc = "held"
    /\ task[t].op = "prune"
    /\ task[t].written = 0
    /\ ~task[t].applied
    /\ ~PeekPrune(threads, task[t].thread_id).some
    /\ task' = [task EXCEPT ![t].applied = TRUE]
    /\ UNCHANGED <<lock, jlog, appliedOps>>
    /\ UNCHANGED <<kvars, pvars, svars, yvars, bvars, uvars>>

\* append_batch writes the next record of the call's batch.
TaskAppend(t) ==
    /\ task[t].pc = "held"
    /\ ~task[t].applied
    /\ task[t].written < 3
    /\ task[t].op = "prune" =>
          (task[t].written > 0 \/ PeekPrune(threads, task[t].thread_id).some)
    /\ wal' = Append(wal, TaskBatch(t)[task[t].written + 1])
    /\ task' = [task EXCEPT ![t].written = task[t].written + 1]
    /\ UNCHANGED <<lock, jlog, appliedOps>>
    /\ UNCHANGED <<threads, root, contexts, journal, up, uuidCtr, calls, faults,
                   lastOp, expected, how, born, replica>>
    /\ UNCHANGED <<pvars, svars, yvars, bvars, uvars>>

\* The three mutators of the call, after append_batch has returned.
TaskApply(t) ==
    /\ task[t].pc = "held"
    /\ ~task[t].applied
    /\ task[t].written = 3
    /\ IF task[t].op = "dispatch"
       THEN /\ threads' = ExtendChain(threads, task[t].thread_id, task[t].to, uuidCtr + 1)
            /\ uuidCtr' = uuidCtr + 1
            /\ contexts' = ContextCreate(contexts, task[t].thread_id)
            /\ journal' = LogDispatchSimple(journal, task[t].message_id,
                              task[t].thread_id, task[t].from, task[t].to)
            /\ jlog' = Append(jlog, task[t].message_id)
       ELSE /\ threads' = PruneForResponse(threads, task[t].thread_id)
            /\ contexts' = ContextRelease(contexts, task[t].thread_id)
            /\ journal' = MarkDeliveredByThread(journal, task[t].thread_id)
            /\ UNCHANGED <<uuidCtr, jlog>>
    /\ appliedOps' = appliedOps + 1
    /\ task' = [task EXCEPT ![t].applied = TRUE]
    /\ UNCHANGED <<lock, wal, root, up, calls, faults, lastOp, expected, how, born, replica>>
    /\ UNCHANGED <<pvars, svars, yvars, bvars, uvars>>

\* The call has returned and the guard is dropped.
TaskUnlock(t) ==
    /\ task[t].pc = "held"
    /\ task[t].applied
    /\ lock' = IF lock = t THEN NOBODY ELSE lock
    /\ task' = [task EXCEPT ![t] = Idle(task[t].ops)]
    /\ UNCHANGED <<jlog, appliedOps>>
    /\ UNCHANGED <<kvars, pvars, svars, yvars, bvars, uvars>>

\* AgentPipeline::initialize_root: the lock is taken, the kernel's
\* initialize_root runs, the guard is dropped.
TaskInitializeRoot(org, profile) ==
    /\ lock = NOBODY
    /\ KernelInitializeRoot(org, profile, FALSE)
    /\ UNCHANGED <<pvars, xvars>>

TInit ==
    /\ lock = NOBODY
    /\ task = [t \in Tasks |-> Idle(0)]
    /\ jlog = <<>>
    /\ appliedOps = 0

\* ---------------------------------------------------------- EmbeddingIndex
\* An embedding is a sequence of small integers, each an f32 without
\* rounding.  An f32 is kept as sign, significand and exponent: zero is
\* (0, 0, 0), any other value is (-1)^s * m * 2^e with 2^23 <= m < 2^24.
\* The exponents stay far inside the range of f32 for the embeddings used,
\* so infinities, NaN and subnormal numbers do not arise.
MaxEntries == 2

ToolNames == {"file-ops", "shell", "coding-agent"}

Embeddings == {<<1, 0>>, <<0, 1>>, <<1, 1>>, <<0, 0>>, <<1>>}

Queries == {<<1, 1>>, <<1, 0>>, <<0, 0>>}

F32(s, m, e) == [s |-> s, m |-> m, e |-> e]

Zero32 == F32(0, 0, 0)

\* Rounding to nearest, ties to even, of m * 2^e; sticky tells that the
\* exact value lies above it by less than 2^e, and comes with an m of 25
\* bits or more.
RECURSIVE RoundF32(_, _, _, _)
RoundF32(s, m, e, sticky) ==
    IF m = 0 THEN Zero32
    ELSE IF m < 8388608 THEN RoundF32(s, 2 * m, e - 1, sticky)
    ELSE IF m < 16777216 THEN F32(s, m, e)
    ELSE IF m >= 33554432 THEN RoundF32(s, m \div 2, e + 1, sticky \/ m % 2 = 1)
    ELSE LET q == m \div 2
             round_up == m % 2 = 1 /\ (sticky \/ q % 2 = 1)
         IN  IF ~round_up THEN F32(s, q, e + 1)
             ELSE IF q + 1 = 16777216 THEN F32(s, 8388608, e + 2)
             ELSE F32(s, q + 1, e + 1)

\* An integer below 2^24 as f32
FromInt(k) == RoundF32(IF k < 0 THEN 1 ELSE 0, IF k < 0 THEN -k ELSE k, 0, FALSE)

\* f32::sqrt of an integer: the digits of the root are found one by one
\* until there are 25 of them, then the root is rounded.
RECURSIVE SqrtDigits(_, _, _)
SqrtDigits(r, rem, e) ==
    IF r >= 16777216 THEN RoundF32(0, r, e, rem # 0)
    ELSE IF 4 * rem >= 4 * r + 1 THEN SqrtDigits(2 * r + 1, 4 * rem - (4 * r + 1), e - 1)
    ELSE SqrtDigits(2 * r, 4 * rem, e - 1)

SqrtF32(k) ==
    IF k = 0 THEN Zero32
    ELSE LET r0 == CHOOSE r \in 0..k : r * r <= k /\ (r + 1) * (r + 1) > k
         IN  SqrtDigits(r0, k - r0 * r0, 0)

\* x * y on f32: the 48-bit product of the significands, in halves of 12
\* bits, is cut to 26 bits and rounded.
MulF32(x, y) ==
    LET x1 == x.m \div 4096
        x0 == x.m % 4096
        y1 == y.m \div 4096
        y0 == y.m % 4096
        mid == x1 * y0 + x0 * y1
        low == (mid % 4096) * 4096 + x0 * y0
        hi == x1 * y1 + (mid \div 4096) + (low \div 16777216)
        lo == low % 16777216
    IN  IF x.m = 0 \/ y.m = 0 THEN Zero32
        ELSE RoundF32((x.s + y.s) % 2, 4 * hi + (lo \div 4194304), x.e + y.e + 22,
                      lo % 4194304 # 0)

\* x / y on f32, y not zero: long division to 26 digits after the first,
\* then rounding.
RECURSIVE DivDigits(_, _, _, _)
DivDigits(q, rem, d, n) ==
    IF n = 0 THEN <<q, rem>>
    ELSE IF 2 * rem >= d THEN DivDigits(2 * q + 1, 2 * rem - d, d, n - 1)
    ELSE DivDigits(2 * q, 2 * rem, d, n - 1)

DivF32(x, y) ==
    LET qr == DivDigits(x.m \div y.m, x.m % y.m, y.m, 26)
    IN  IF x.m = 0 THEN Zero32
        ELSE RoundF32((x.s + y.s) % 2, qr[1], x.e - y.e - 26, qr[2] # 0)

\* 0.0, 0.5 and 0.9 as f32
Thresholds == {Zero32, DivF32(FromInt(1), FromInt(2)), DivF32(FromInt(9), FromInt(10))}

\* The products and the sums of the integers of two embeddings are exact
\* in f32.
RECURSIVE Dot(_, _)
Dot(a, b) == IF a = <<>> THEN 0 ELSE Head(a) * Head(b) + Dot(Tail(a), Tail(b))

\* cosine_similarity(a, b): 0.0 for vectors of different or zero length and
\* for a vector of norm zero, else dot / (norm_a * norm_b) in f32.
CosineF32(a, b) ==
    LET dot == FromInt(Dot(a, b))
        norm_a == SqrtF32(Dot(a, a))
        norm_b == SqrtF32(Dot(b, b))
    IN  IF Len(a) # Len(b) \/ Len(a) = 0 THEN Zero32
        ELSE IF norm_a = Zero32 \/ norm_b = Zero32 THEN Zero32
        ELSE DivF32(dot, MulF32(norm_a, norm_b))

\* The similarities of the embeddings and queries of the index, computed
\* once.
RECURSIVE CosinesOf(_)
CosinesOf(pairs) ==
    IF pairs = {} THEN [p \in {} |-> Zero32]
    ELSE LET p == CHOOSE x \in pairs : TRUE
         IN  (p :> CosineF32(p[1], p[2])) @@ CosinesOf(pairs \ {p})

CosineTable == CosinesOf((Embeddings \cup Queries) \X (Embeddings \cup Queries))

\* cosine_similarity(a, b)
CosineSimilarity(a, b) ==
    IF <<a, b>> \in DOMAIN CosineTable THEN CosineTable[<<a, b>>] ELSE CosineF32(a, b)

\* |x| < |y| on f32
MagLess(x, y) ==
    IF y.m = 0 THEN FALSE
    ELSE IF x.m = 0 THEN TRUE
    ELSE x.e < y.e \/ (x.e = y.e /\ x.m < y.m)

\* x <= y on f32
ScoreLeq(x, y) ==
    \/ x = y
    \/ x.s = 1 /\ y.s = 0
    \/ x.s = 0 /\ y.s = 0 /\ MagLess(x, y)
    \/ x.s = 1 /\ y.s = 1 /\ MagLess(y, x)

\* partial_cmp(x, y) is Greater.
ScoreGreater(x, y) == ~ScoreLeq(x, y)

MatchResult(name, score) == [some |-> TRUE, name |-> name, score |-> score]

NoMatch == [some |-> FALSE, name |-> "", score |-> Zero32]

\* Iterator::max_by: the running maximum is kept only while it compares
\* Greater, so of several equal maxima the last one is returned.
RECURSIVE MaxBy(_, _)
MaxBy(acc, rest) ==
    IF rest = <<>> THEN acc
    ELSE MaxBy(IF ScoreGreater(acc.score, Head(rest).score) THEN acc ELSE Head(rest),
               Tail(rest))

\* best_match(query, allowed): the entries are filtered by name when the
\* allow-list is not empty, scored, filtered by the threshold, and the
\* maximum is taken.
BestMatch(idx, query, allowed) ==
    LET filter_active == allowed # {}
        kept == SelectSeq(idx.entries, LAMBDA e : ~filter_active \/ e.name \in allowed)
        scored == [i \in 1..Len(kept) |->
                      MatchResult(kept[i].name, CosineSimilarity(query, kept[i].emb))]
        above == SelectSeq(scored, LAMBDA r : ScoreLeq(idx.threshold, r.score))
    IN  IF above = <<>> THEN NoMatch ELSE MaxBy(Head(above), Tail(above))

\* search_filtered as it would be without the test for an empty allow-list.
SearchFiltered_NoEmptyCheck(idx, query, allowed) == BestMatch(idx, query, allowed)

\* search_filtered(query, allowed)
SearchFiltered(idx, query, allowed) ==
    IF allowed = {} THEN NoMatch ELSE BestMatch(idx, query, allowed)

NoSearch ==
    [called |-> FALSE, op |-> "none", query |-> <<>>, allowed |-> {}, result |-> NoMatch]

\* EmbeddingIndex::new(threshold)
NewIndex(threshold) == [entries |-> <<>>, threshold |-> threshold]

\* register(name, embedding) as it would be without the retain that drops the
\* entry of the same name.
IndexRegister_NoRetain(name, emb) ==
    /\ Len(index.entries) < MaxEntries
    /\ index' = [index EXCEPT !.entries = Append(index.entries, [name |-> name, emb |-> emb])]
    /\ lastSearch' = [NoSearch EXCEPT !.op = "register"]
    /\ UNCHANGED <<kvars, pvars, tvars, yvars, bvars, uvars>>

\* register(name, embedding): an entry of the same name is replaced.
IndexRegister(name, emb) ==
    LET kept == SelectSeq(index.entries, LAMBDA e : e.name # name) IN
    /\ Len(kept) < MaxEntries
    /\ index' = [index EXCEPT !.entries = Append(kept, [name |-> name, emb |-> emb])]
    /\ lastSearch' = [NoSearch EXCEPT !.op = "register"]
    /\ UNCHANGED <<kvars, pvars, tvars, yvars, bvars, uvars>>

\* remove(name)
IndexRemove(name) ==
    /\ index' = [index EXCEPT !.entries = SelectSeq(index.entries, LAMBDA e : e.name # name)]
    /\ lastSearch' = [NoSearch EXCEPT !.op = "remove"]
    /\ UNCHANGED <<kvars, pvars, tvars, yvars, bvars, uvars>>

\* A call of search_filtered on the index.
IndexSearchFiltered(query, allowed) ==
    /\ lastSearch' = [called |-> TRUE, op |-> "search_filtered", query |-> query,
                      allowed |-> allowed,
                      result |-> SearchFiltered(index, query, allowed)]
    /\ UNCHANGED index
    /\ UNCHANGED <<kvars, pvars, tvars, yvars, bvars, uvars>>

\* The index of the other specifications: empty, threshold 0.5.
SInit ==
    /\ index = NewIndex(DivF32(FromInt(1), FromInt(2)))
    /\ lastSearch = NoSearch

\* A call of cosine_similarity(a, b).
NoCosine == [called |-> FALSE, a |-> <<>>, b |-> <<>>, result |-> Zero32]

Cosine(a, b) ==
    /\ lastCosine' = [called |-> TRUE, a |-> a, b |-> b, result |-> CosineSimilarity(a, b)]
    /\ UNCHANGED <<lastFill, il, app, pm, filler>>
    /\ UNCHANGED <<kvars, pvars, tvars, svars, yvars, bvars>>

\* ------------------------------------------------------------------ strings
\* A Rust String is the sequence of its characters, each a one-character
\* string.  A message built with format! keeps the text of the format string
\* between two interpolated values as one element.
\* char::is_whitespace, which str::trim uses too: the characters with the
\* Unicode property White_Space, by the number of bytes of their UTF-8
\* form.  A character without an escape is named by its code point.
WhiteSpace1 == {"\t", "\n", "U+000B", "\f", "\r", " "}

WhiteSpace2 == {"U+0085", "U+00A0"}

WhiteSpace3 == {"U+1680", "U+2000", "U+2001", "U+2002", "U+2003", "U+2004", "U+2005",
                "U+2006", "U+2007", "U+2008", "U+2009", "U+200A", "U+2028", "U+2029",
                "U+202F", "U+205F", "U+3000"}

WhiteSpace == WhiteSpace1 \cup WhiteSpace2 \cup WhiteSpace3

StartsWith(s, p) == Len(p) <= Len(s) /\ SubSeq(s, 1, Len(p)) = p

EndsWith(s, p) == Len(p) <= Len(s) /\ SubSeq(s, Len(s) - Len(p) + 1, Len(s)) = p

RECURSIVE TrimStart(_)
TrimStart(s) == IF s # <<>> /\ Head(s) \in WhiteSpace THEN TrimStart(Tail(s)) ELSE s

RECURSIVE TrimEnd(_)
TrimEnd(s) ==
    IF s # <<>> /\ s[Len(s)] \in WhiteSpace THEN TrimEnd(SubSeq(s, 1, Len(s) - 1)) ELSE s

\* str::trim: the leading and trailing White_Space characters are left out.
Trim(s) == TrimEnd(TrimStart(s))

\* str::find with a set of characters: the position of the first character
\* of s that is in cs, 0 when there is none.
Find(s, cs) ==
    IF \E i \in 1..Len(s) : s[i] \in cs
    THEN CHOOSE i \in 1..Len(s) : s[i] \in cs /\ \A j \in 1..(i - 1) : s[j] \notin cs
    ELSE 0

\* s.strip_suffix(p).unwrap_or(s)
StripSuffixOr(s, p) == IF EndsWith(s, p) THEN SubSeq(s, 1, Len(s) - Len(p)) ELSE s

\* p occurs in s.
Contains(s, p) == \E i \in 0..(Len(s) - Len(p)) : SubSeq(s, i + 1, i + Len(p)) = p

\* -------------------------------------------------------------- form filler
MaxRetries == 2

\* The character U+0060 of a Markdown code fence.
Backtick == "U+0060"

Fence == <<Backtick, Backtick, Backtick>>

FenceXml == Fence \o <<"x", "m", "l">>

\* strip_xml_fencing(text)
StripXmlFencing(text) ==
    LET trimmed == Trim(text)
        unfenced(p) ==
            LET rest == Trim(SubSeq(trimmed, Len(p) + 1, Len(trimmed)))
            IN  Trim(StripSuffixOr(rest, Fence))
    IN  IF StartsWith(trimmed, FenceXml) THEN unfenced(FenceXml)
        ELSE IF StartsWith(trimmed, Fence) THEN unfenced(Fence)
        ELSE trimmed

XmlOk == [ok |-> TRUE, err |-> <<>>]

XmlErr(e) == [ok |-> FALSE, err |-> e]

\* validate_xml(xml, expected_root_tag)
ValidateXml(xml, expected_root_tag) ==
    LET trimmed == Trim(xml)
        expected_open == <<"<">> \o expected_root_tag
        expected_close == <<"<", "/">> \o expected_root_tag \o <<">">>
        end == Find(trimmed, {">", " "})
    IN  IF trimmed = <<>> THEN XmlErr(<<"empty XML">>)
        ELSE IF Head(trimmed) # "<"
        THEN XmlErr(<<"not valid XML: doesn't start with '<'">>)
        ELSE IF ~StartsWith(trimmed, expected_open)
        THEN IF end # 0
             THEN XmlErr(<<"expected root tag <">> \o expected_root_tag \o <<">, got <">>
                         \o SubSeq(trimmed, 2, end - 1) \o <<">">>)
             ELSE XmlErr(<<"expected root tag <">> \o expected_root_tag \o <<">">>)
        ELSE IF ~EndsWith(trimmed, expected_close)
        THEN XmlErr(<<"missing closing tag </">> \o expected_root_tag \o <<">">>)
        ELSE XmlOk

\* MODEL_LADDER and model_for_attempt(attempt)
MODEL_LADDER == <<"haiku", "haiku", "sonnet">>

\* model_for_attempt as it would be with opus after the end of the ladder.
ModelForAttempt_OpusFallback(attempt) ==
    IF attempt < Len(MODEL_LADDER) THEN MODEL_LADDER[attempt + 1] ELSE "opus"

ModelForAttempt(attempt) ==
    IF attempt < Len(MODEL_LADDER) THEN MODEL_LADDER[attempt + 1] ELSE "sonnet"

\* FormFillResult
FillSuccess(tool_name, filled_xml) ==
    [kind |-> "Success", tool_name |-> tool_name, filled_xml |-> filled_xml,
     last_error |-> <<>>]

FillFailed(tool_name, last_error) ==
    [kind |-> "Failed", tool_name |-> tool_name, filled_xml |-> <<>>,
     last_error |-> last_error]

\* What LlmPool::complete returns to the form filler: an error, a response
\* without a text block, or a response with text.
LlmErr(e) == [kind |-> "err", text |-> <<>>, err |-> e]

LlmNoText == [kind |-> "notext", text |-> <<>>, err |-> <<>>]

LlmText(t) == [kind |-> "text", text |-> t, err |-> <<>>]

\* replies, followed by responses without text up to n replies in all.
PadReplies(replies, n) ==
    [k \in 1..(IF n > Len(replies) THEN n ELSE Len(replies)) |->
        IF k <= Len(replies) THEN replies[k] ELSE LlmNoText]

\* One iteration of the loop of fill: the model of its LLM call and the
\* prompt it was given (build_fill_prompt on the first attempt,
\* build_retry_prompt quoting the previous error afterwards), and the arm
\* of the match that the result of the call took: Ok(()) of validate_xml,
\* or the text assigned to last_error.
LlmCall(attempt, last_error, verdict) ==
    [model |-> ModelForAttempt(attempt),
     prompt |-> IF attempt = 0 THEN "fill" ELSE "retry",
     previous_error |-> IF attempt = 0 THEN <<>> ELSE last_error,
     verdict |-> verdict]

\* The loop of CloudFormFiller::fill from attempt on; replies[k] is what
\* the k-th LLM call returns.
RECURSIVE CloudAttempts(_, _, _, _, _, _, _)
CloudAttempts(attempt, max_retries, tool_name, payload_tag, replies, last_error, log) ==
    IF attempt >= max_retries
    THEN [result |-> FillFailed(tool_name, last_error), calls |-> log]
    ELSE LET reply == replies[attempt + 1]
             cleaned == StripXmlFencing(reply.text)
             verdict == IF reply.kind = "text" THEN ValidateXml(cleaned, payload_tag)
                        ELSE IF reply.kind = "notext"
                        THEN XmlErr(<<"LLM returned no text content">>)
                        ELSE XmlErr(<<"LLM API error: ">> \o reply.err)
             made == Append(log, LlmCall(attempt, last_error, verdict))
         IN  IF verdict.ok
             THEN [result |-> FillSuccess(tool_name, cleaned), calls |-> made]
             ELSE CloudAttempts(attempt + 1, max_retries, tool_name, payload_tag, replies,
                                verdict.err, made)

\* CloudFormFiller::fill as it would be with one attempt less than max_retries.
CloudFill_OneLess(max_retries, tool_name, payload_tag, replies) ==
    CloudAttempts(0, max_retries - 1, tool_name, payload_tag, replies, <<>>, <<>>)

\* CloudFormFiller::fill
CloudFill(max_retries, tool_name, payload_tag, replies) ==
    CloudAttempts(0, max_retries, tool_name, payload_tag, replies, <<>>, <<>>)

\* A form-fill strategy: the cloud filler with its max_retries, or the local
\* filler with the tools it has a schema for and its optional cloud fallback.
Cloud(max_retries) ==
    [strategy |-> "cloud", max_retries |-> max_retries, schemas |-> {},
     cloud_fallback |-> FALSE]

Local(schemas, cloud_fallback, max_retries) ==
    [strategy |-> "local", max_retries |-> max_retries, schemas |-> schemas,
     cloud_fallback |-> cloud_fallback]

\* What complete_constrained returns: an error or an output.
EngineErr == [ok |-> FALSE, output |-> <<>>]

EngineOut(output) == [ok |-> TRUE, output |-> output]

NoEngine == [ok |-> FALSE, output |-> <<"no engine">>]

\* LocalFormFiller::cloud_fill_or_fail
CloudFillOrFail(ff, tool_name, payload_tag, replies) ==
    IF ff.cloud_fallback
    THEN CloudFill(ff.max_retries, tool_name, payload_tag, replies)
    ELSE [result |-> FillFailed(tool_name, <<"no local schema and no cloud fallback">>),
          calls |-> <<>>]

\* LocalFormFiller::fill; engine is what complete_constrained returns when
\* it is called.
LocalFill(ff, tool_name, payload_tag, engine, replies) ==
    IF tool_name \notin ff.schemas
    THEN [engine |-> 0] @@ CloudFillOrFail(ff, tool_name, payload_tag, replies)
    ELSE IF engine.ok /\ ValidateXml(engine.output, payload_tag).ok
    THEN [engine |-> 1, result |-> FillSuccess(tool_name, engine.output), calls |-> <<>>]
    ELSE [engine |-> 1] @@ CloudFillOrFail(ff, tool_name, payload_tag, replies)

\* FormFillStrategy::fill on the strategy ff.
Fill(ff, tool_name, payload_tag, engine, replies) ==
    IF ff.strategy = "cloud"
    THEN [engine |-> 0] @@ CloudFill(ff.max_retries, tool_name, payload_tag, replies)
    ELSE LocalFill(ff, tool_name, payload_tag, engine, replies)

\* ---------------------------------------------------------- SemanticRouter
\* The EmbeddingProvider of the router, as the table of the texts it is
\* given: the semantic descriptions of the tools and the texts to route.
FileOpsDescription == "This tool reads, writes, and manages files"

ShellDescription == "This tool executes shell commands"

RouteTexts == {"read the parser source", "read the file and run the tests", "hello"}

Embed(text) ==
    CASE text = FileOpsDescription -> <<1, 0>>
      [] text = ShellDescription -> <<0, 1>>
      [] text = "read the parser source" -> <<1, 0>>
      [] text = "read the file and run the tests" -> <<1, 1>>
      [] OTHER -> <<0, 0>>

\* The listeners of routing_organism() in the orders listeners().values()
\* can give them; coding-agent has no semantic_description.
Described(name, description) == [name |-> name, some |-> TRUE, description |-> description]

Undescribed(name) == [name |-> name, some |-> FALSE, description |-> ""]

RoutingListeners ==
    {<<Described("file-ops", FileOpsDescription), Described("shell", ShellDescription),
       Undescribed("coding-agent")>>,
     <<Undescribed("coding-agent"), Described("shell", ShellDescription),
       Described("file-ops", FileOpsDescription)>>}

\* EmbeddingIndex::register as a function of the index.
RegisterIn(idx, name, emb) ==
    [idx EXCEPT !.entries = Append(SelectSeq(idx.entries, LAMBDA e : e.name # name),
                                   [name |-> name, emb |-> emb])]

\* register_tools(index, provider, organism)
RECURSIVE RegisterTools(_, _)
RegisterTools(idx, listeners) ==
    IF listeners = <<>> THEN idx
    ELSE RegisterTools(IF Head(listeners).some
                       THEN RegisterIn(idx, Head(listeners).name,
                                        Embed(Head(listeners).description))
                       ELSE idx,
                       Tail(listeners))

\* A call of register_tools on the index with the provider of the router.
IndexRegisterTools(listeners) ==
    /\ Len(RegisterTools(index, listeners).entries) <= MaxEntries
    /\ index' = RegisterTools(index, listeners)
    /\ lastSearch' = [NoSearch EXCEPT !.op = "register_tools"]
    /\ UNCHANGED <<kvars, pvars, tvars, yvars, bvars, uvars>>

\* ToolMetadata of the tools that have one.
FileOpsTag == <<"R", "e", "q">>

ShellTag == <<"S", "h">>

ToolMetadata(description, xml_template, payload_tag) ==
    [description |-> description, xml_template |-> xml_template,
     payload_tag |-> payload_tag]

MetadataOf(name) ==
    IF name = "file-ops"
    THEN ToolMetadata("File operations tool", <<"<">> \o FileOpsTag \o <<"/", ">">>, FileOpsTag)
    ELSE ToolMetadata("Shell execution tool", <<"<">> \o ShellTag \o <<"/", ">">>, ShellTag)

\* What the LLM and the local engine can answer.
Element(tag, close) == <<"<">> \o tag \o <<">", "a", "<", "/">> \o close \o <<">">>

DocValid == Element(FileOpsTag, FileOpsTag)

DocPrefix == Element(FileOpsTag \o <<"s">>, FileOpsTag)

DocFenced == FenceXml \o <<"\n">> \o DocValid \o <<"\n">> \o Fence

DocShell == Element(ShellTag, ShellTag)

\* The valid answer between whitespace that is not ASCII blank: a form feed
\* and a no-break space before it, an ideographic space and a line feed
\* after it.
DocPadded == <<"\f", "U+00A0">> \o DocValid \o <<"U+3000", "\n">>

\* Display of LlmError::RateLimited { retry_after: None }
RateLimitedText == <<"rate limited (retry after ", "None", "s)">>

LlmReplies == {LlmErr(RateLimitedText), LlmNoText, LlmText(DocValid), LlmText(DocPrefix),
               LlmText(DocFenced), LlmText(DocShell), LlmText(DocPadded)}

EngineResults == {EngineErr, EngineOut(DocValid), EngineOut(DocPrefix), EngineOut(DocShell),
                  EngineOut(DocPadded)}

\* RouteDecision
Response == [kind |-> "Response", tool_name |-> "", result_xml |-> <<>>, note |-> <<>>]

ToolResult(tool_name, result_xml) ==
    [kind |-> "ToolResult", tool_name |-> tool_name, result_xml |-> result_xml,
     note |-> <<>>]

\* ToolFailed as it would be if a failed form fill were reported as Response.
ToolFailed_AsResponse(note) == Response

ToolFailed(note) == [kind |-> "ToolFailed", tool_name |-> "", result_xml |-> <<>>, note |-> note]

\* No call of route is under way and no decision waits to be taken.  A
\* call under way is at pc, with the answer engine of the local engine to
\* draw on and the replies its LLM calls have returned so far.
NoRoute == [called |-> FALSE, text |-> "", allowed |-> {}, found |-> NoMatch,
            decision |-> Response, fills |-> <<>>,
            pc |-> "idle", answer |-> [ok |-> FALSE, output |-> <<>>], replies |-> <<>>]

\* route as it would be if it searched the whole index.
RouteOutcome_Unfiltered(text, allowed_tools, engine, replies) ==
    LET m == BestMatch(index, Embed(text), {})
        meta == tool_metadata[m.name]
        f == Fill(form_filler, m.name, meta.payload_tag, engine, replies)
    IN  IF m.some /\ m.name \in DOMAIN tool_metadata
        THEN [found |-> m,
              decision |-> IF f.result.kind = "Success"
                           THEN ToolResult(f.result.tool_name, f.result.filled_xml)
                           ELSE ToolFailed(<<"Could not extract parameters for ",
                                             f.result.tool_name, ": ">>
                                           \o f.result.last_error),
              fills |-> <<[tool_name |-> m.name, payload_tag |-> meta.payload_tag,
                           answer |-> engine, replies |-> replies] @@ f>>]
        ELSE [found |-> m, decision |-> Response, fills |-> <<>>]

\* SemanticRouter::route(text, allowed_tools): the decision, the match the
\* index gave and the calls of the form filler, each with the answers it
\* was given by the local engine and by the LLM.
RouteOutcome(text, allowed_tools, engine, replies) ==
    IF allowed_tools = {}
    THEN [found |-> NoMatch, decision |-> Response, fills |-> <<>>]
    ELSE LET query == Embed(text)
             m == SearchFiltered(index, query, allowed_tools)
         IN  IF m.some /\ m.name \in DOMAIN tool_metadata
             THEN LET meta == tool_metadata[m.name]
                      f == Fill(form_filler, m.name, meta.payload_tag, engine, replies)
                      fill_result == f.result
                  IN  [found |-> m,
                       decision |->
                          IF fill_result.kind = "Success"
                          THEN ToolResult(fill_result.tool_name, fill_result.filled_xml)
                          ELSE ToolFailed(<<"Could not extract parameters for ",
                                            fill_result.tool_name, ": ">>
                                          \o fill_result.last_error),
                       fills |-> <<[tool_name |-> m.name, payload_tag |-> meta.payload_tag,
                                    answer |-> engine, replies |-> replies] @@ f>>]
             ELSE [found |-> m, decision |-> Response, fills |-> <<>>]

\* The answers a call of route can draw on: the local engine's when the
\* strategy has one, and one LLM answer per attempt of the cloud filler.
EngineAnswers == IF form_filler.strategy = "local" THEN EngineResults ELSE {NoEngine}

LlmAnswers ==
    IF form_filler.strategy = "cloud" \/ form_filler.cloud_fallback
    THEN [1..form_filler.max_retries -> LlmReplies]
    ELSE {<<>>}

\* The task that runs route, as the holder of the mutex of the LlmPool.
ROUTER == "router"

\* Another task that has a clone of the SharedEngine.
ENGINE_USER == "engine user"

\* The call of route after the LLM calls that returned replies, padded
\* being what route returns when the calls still to come return no text.
\* When padded has more calls than there are replies, none of the replies
\* passed and max_retries is not reached: the fill goes to another
\* attempt.  Otherwise route has returned, with what padded says.
RouteAfter(text, allowed_tools, engine, replies, padded) ==
    IF padded.fills # <<>> /\ Len(padded.fills[1].calls) > Len(replies)
    THEN [NoRoute EXCEPT !.text = text, !.allowed = allowed_tools, !.pc = "lock pool",
                         !.answer = engine, !.replies = replies]
    ELSE [called |-> TRUE, text |-> text, allowed |-> allowed_tools,
          pc |-> "idle", answer |-> NoRoute.answer, replies |-> <<>>,
          found |-> padded.found, decision |-> padded.decision,
          fills |-> [i \in DOMAIN padded.fills |->
                        [padded.fills[i] EXCEPT !.replies = replies]]]

\* The call of route up to the first await of the fill, padded being what
\* route returns when the engine fails and the LLM calls return no text:
\* a fill that calls the engine waits for its mutex first.
RouteBefore(text, allowed_tools, padded) ==
    IF padded.fills # <<>> /\ padded.fills[1].engine = 1
    THEN [NoRoute EXCEPT !.text = text, !.allowed = allowed_tools, !.pc = "lock engine"]
    ELSE RouteAfter(text, allowed_tools, NoEngine, <<>>, padded)

\* The guard of the engine that LocalFormFiller::fill took lives until fill
\* returns: it is dropped when route has returned.  A route that took no
\* guard drops none, and the mutex stays with the task that holds it.
EngineGuard(route, held) == IF route.pc = "idle" /\ held = ROUTER THEN NOBODY ELSE held

RouteUnchanged ==
    /\ UNCHANGED <<tool_metadata, form_filler>>
    /\ UNCHANGED <<inventory, librarian, libLock, curation, handler>>
    /\ UNCHANGED <<kvars, pvars, tvars, svars, bvars, uvars>>

\* A call of route by the agent loop, which awaits the decision and takes
\* it before it routes the next text: route embeds the text, searches the
\* index and calls form_filler.fill, which runs to its first await: the
\* mutex of the engine when the tool has a local schema, the mutex of the
\* pool when the cloud filler is to make a call.  With neither, fill and
\* route return.
Route(text, allowed_tools) ==
    /\ ~lastRoute.called
    /\ lastRoute.pc = "idle"
    /\ lastRoute' = RouteBefore(text, allowed_tools,
                                RouteOutcome(text, allowed_tools, NoEngine,
                                             PadReplies(<<>>, form_filler.max_retries)))
    /\ UNCHANGED <<poolLock, engineLock>>
    /\ RouteUnchanged

\* self.engine.lock().await of LocalFormFiller::fill is granted, and
\* complete_constrained returns engine: its output is validated and fill
\* returns, or goes on to cloud_fill_or_fail with the guard of the engine
\* still alive.
RouteEngine(engine) ==
    /\ lastRoute.pc = "lock engine"
    /\ engineLock = NOBODY
    /\ lastRoute' = RouteAfter(lastRoute.text, lastRoute.allowed, engine, <<>>,
                               RouteOutcome(lastRoute.text, lastRoute.allowed, engine,
                                            PadReplies(<<>>, form_filler.max_retries)))
    /\ engineLock' = EngineGuard(lastRoute', ROUTER)
    /\ UNCHANGED poolLock
    /\ RouteUnchanged

\* Another holder of the SharedEngine locks it, and drops its guard.
EngineLock ==
    /\ engineLock = NOBODY
    /\ engineLock' = ENGINE_USER
    /\ UNCHANGED <<tool_metadata, form_filler, lastRoute>>
    /\ UNCHANGED <<kvars, pvars, tvars, svars, lvars, bvars, uvars>>

EngineUnlock ==
    /\ engineLock = ENGINE_USER
    /\ engineLock' = NOBODY
    /\ UNCHANGED <<tool_metadata, form_filler, lastRoute>>
    /\ UNCHANGED <<kvars, pvars, tvars, svars, lvars, bvars, uvars>>

\* self.pool.lock().await of an attempt of the fill of route.
RoutePoolLock ==
    /\ lastRoute.pc = "lock pool"
    /\ poolLock = NOBODY
    /\ poolLock' = ROUTER
    /\ lastRoute' = [lastRoute EXCEPT !.pc = "complete"]
    /\ UNCHANGED engineLock
    /\ RouteUnchanged

\* pool.complete(..).await of the attempt returns reply and the guard of
\* the pool is dropped: the fill goes to its next attempt, or returns
\* and route returns its decision.
RouteComplete(reply) ==
    LET replies == Append(lastRoute.replies, reply)
    IN  /\ lastRoute.pc = "complete"
        /\ poolLock' = NOBODY
        /\ lastRoute' = RouteAfter(lastRoute.text, lastRoute.allowed, lastRoute.answer,
                                   replies,
                                   RouteOutcome(lastRoute.text, lastRoute.allowed,
                                                lastRoute.answer,
                                                PadReplies(replies, form_filler.max_retries)))
        /\ engineLock' = EngineGuard(lastRoute', engineLock)
        /\ RouteUnchanged

\* The caller has taken the decision of the last route.
TakeDecision ==
    /\ lastRoute.called
    /\ lastRoute' = NoRoute
    /\ UNCHANGED <<tool_metadata, form_filler, engineLock>>
    /\ UNCHANGED <<kvars, pvars, tvars, svars, lvars, bvars, uvars>>

\* register_metadata(name, metadata), which borrows the router mutably:
\* no call of route is under way.
RegisterMetadata(name) ==
    /\ lastRoute.pc = "idle"
    /\ tool_metadata' = [n \in DOMAIN tool_metadata \cup {name} |->
                            IF n = name THEN MetadataOf(name) ELSE tool_metadata[n]]
    /\ lastRoute' = NoRoute
    /\ UNCHANGED <<form_filler, engineLock>>
    /\ UNCHANGED <<kvars, pvars, tvars, svars, lvars, bvars, uvars>>

\* The router of the other specifications: no metadata, a cloud filler.
RInit ==
    /\ tool_metadata = EmptyFn
    /\ form_filler = Cloud(MaxRetries)
    /\ lastRoute = NoRoute
    /\ engineLock = NOBODY

\* ---------------------------------------------------------------- Librarian
\* The String of a literal: the sequence of its characters.
Chars(literal) == [i \in 1..Len(literal) |-> SubSeq(literal, i, i)]

\* str::find with a pattern: the position of the first occurrence of p in
\* s, 0 when there is none.
FindSeq(s, p) ==
    LET at == {i \in 1..(Len(s) - Len(p) + 1) : SubSeq(s, i, i + Len(p) - 1) = p}
    IN  IF at = {} THEN 0 ELSE CHOOSE i \in at : \A j \in at : i <= j

None == [some |-> FALSE, v |-> <<>>]

Some(v) == [some |-> TRUE, v |-> v]

\* format!("<{tag}>") and format!("</{tag}>")
SectionOpen(tag) == <<"<">> \o tag \o <<">">>

SectionClose(tag) == <<"<", "/">> \o tag \o <<">">>

\* extract_section(xml, tag): the text between the first <tag> and the
\* first </tag>, when the one does not start after the other.
ExtractSection(xml, tag) ==
    LET open == FindSeq(xml, SectionOpen(tag))
        close == FindSeq(xml, SectionClose(tag))
    IN  IF open = 0 \/ close = 0 THEN None
        ELSE IF open + Len(SectionOpen(tag)) <= close
        THEN Some(SubSeq(xml, open + Len(SectionOpen(tag)), close - 1))
        ELSE None

\* extract_attr(tag, attr): the text between the first occurrence of
\* attr=" in tag, wherever it is, and the next quote.
ExtractAttr(tag, attr) ==
    LET pattern == attr \o <<"=", "\"">>
        at == FindSeq(tag, pattern)
        rest == SubSeq(tag, at + Len(pattern), Len(tag))
        quote == Find(rest, {"\""})
    IN  IF at = 0 \/ quote = 0 THEN None ELSE Some(SubSeq(rest, 1, quote - 1))

\* extract_segment_ids(section): from each occurrence of "<segment " to the
\* next "/>" is a tag, and the search goes on after it.
RECURSIVE ExtractSegmentIds(_)
ExtractSegmentIds(section) ==
    LET start == FindSeq(section, Chars("<segment "))
        from == SubSeq(section, start, Len(section))
        end == FindSeq(from, Chars("/>"))
        id == ExtractAttr(SubSeq(from, 1, end + 1), Chars("id"))
        more == ExtractSegmentIds(SubSeq(from, end + 2, Len(from)))
    IN  IF start = 0 \/ end = 0 THEN <<>>
        ELSE IF id.some THEN <<id.v>> \o more
        ELSE more

CurationDecision(page_in, page_out) == [page_in |-> page_in, page_out |-> page_out]

\* parse_curation_response as it would be if it took every segment of the
\* response, inside a section or not, as paged in.
ParseCurationResponse_Unclosed(response) ==
    CurationDecision(ExtractSegmentIds(response), <<>>)

\* parse_curation_response(response); it has no Err outcome.
ParseCurationResponse(response) ==
    LET section_in == ExtractSection(response, Chars("page_in"))
        section_out == ExtractSection(response, Chars("page_out"))
    IN  CurationDecision(IF section_in.some THEN ExtractSegmentIds(section_in.v) ELSE <<>>,
                         IF section_out.some THEN ExtractSegmentIds(section_out.v) ELSE <<>>)

\* sample_inventory(): the segments of a thread in the order they are kept.
SegmentMeta(id, tag, size, status, relevance, created_at) ==
    [id |-> id, tag |-> tag, size |-> size, status |-> status, relevance |-> relevance,
     created_at |-> created_at]

SegmentIds == <<Chars("code:parser.rs"), Chars("msg-001"), Chars("map:crate")>>

SampleInventory(statuses) ==
    <<SegmentMeta(SegmentIds[1], "code", 2000, statuses[1], 30, 1000),
      SegmentMeta(SegmentIds[2], "message", 500, statuses[2], 80, 2000),
      SegmentMeta(SegmentIds[3], "codebase-map", 1000, statuses[3], 50, 500)>>

\* active_bytes of an inventory
RECURSIVE ActiveBytes(_)
ActiveBytes(inv) ==
    IF inv = <<>> THEN 0
    ELSE (IF Head(inv).status = "Active" THEN Head(inv).size ELSE 0) + ActiveBytes(Tail(inv))

Elements(s) == {s[i] : i \in 1..Len(s)}

\* What the curation LLM can answer.  An answer is the sequence of the
\* fragments the LLM wrote, each a String, and the text that is parsed is
\* the fragments one after the other.
RECURSIVE AnswerText(_)
AnswerText(answer) ==
    IF answer = <<>> THEN <<>> ELSE Head(answer) \o AnswerText(Tail(answer))

\* A segment element with its id attribute, as spec 6.3 has it.
Segment(id) == Chars("<segment id=\"") \o id \o Chars("\" reason=\"r\"/>")

\* A segment element that names the segment in an attribute other than id.
SegmentByUuid(id) == Chars("<segment uuid=\"") \o id \o Chars("\"/>")

SegmentNoId == Chars("<segment reason=\"r\"/>")

\* A segment tag that is not closed.
SegmentOpen(id) == Chars("<segment id=\"") \o id \o Chars("\"")

Segments(ids) == [i \in 1..Len(ids) |-> Segment(ids[i])]

CurationAnswer(page_in, page_out) ==
    <<Chars("<CurationDecision>"), SectionOpen(Chars("page_in"))>> \o Segments(page_in)
    \o <<SectionClose(Chars("page_in")), SectionOpen(Chars("page_out"))>>
    \o Segments(page_out)
    \o <<SectionClose(Chars("page_out")), Chars("</CurationDecision>")>>

\* Answers without a segment element with an id in a page_in or page_out
\* section: no XML, empty sections, a section that is not closed, a
\* section closed before it is opened, a segment without attribute id, a
\* segment tag that is not closed, a segment named by another attribute.
UnparseableAnswers ==
    {<<Chars("no xml here")>>,
     CurationAnswer(<<>>, <<>>),
     <<SectionOpen(Chars("page_in")), Segment(SegmentIds[1])>>,
     <<SectionClose(Chars("page_in")), Segment(SegmentIds[1]), SectionOpen(Chars("page_in"))>>,
     <<SectionOpen(Chars("page_out")), SegmentNoId, SectionClose(Chars("page_out"))>>,
     <<SectionOpen(Chars("page_in")), SegmentOpen(SegmentIds[1]),
       SectionClose(Chars("page_in"))>>,
     <<SectionOpen(Chars("page_in")), SegmentByUuid(SegmentIds[2]),
       SectionClose(Chars("page_in"))>>}

ParseableAnswers ==
    {CurationAnswer(<<SegmentIds[1]>>, <<>>),
     CurationAnswer(<<SegmentIds[1], SegmentIds[3]>>, <<>>),
     CurationAnswer(<<SegmentIds[3]>>, <<SegmentIds[2]>>),
     CurationAnswer(<<>>, <<SegmentIds[1], SegmentIds[2]>>),
     CurationAnswer(<<Chars("msg-old-003")>>, <<>>)}

CurationAnswers == UnparseableAnswers \cup ParseableAnswers

\* Librarian::curate, steps 4 and budget enforcement: page_in marks Active
\* and page_out marks Shelved, and of the segments page_in would activate
\* the lowest-relevance ones are rejected while the Active sizes exceed the
\* budget.
RECURSIVE RejectExcess(_, _, _)
RejectExcess(inv, accepted, token_budget) ==
    LET marked == [i \in 1..Len(inv) |->
                      IF inv[i].id \in accepted THEN [inv[i] EXCEPT !.status = "Active"]
                      ELSE inv[i]]
        lowest == CHOOSE i \in 1..Len(inv) :
                     /\ inv[i].id \in accepted
                     /\ \A j \in 1..Len(inv) :
                           inv[j].id \in accepted => inv[i].relevance <= inv[j].relevance
    IN  IF accepted = {} \/ ActiveBytes(marked) <= token_budget THEN marked
        ELSE RejectExcess(inv, accepted \ {inv[lowest].id}, token_budget)

CurateApplyDecision(inv, decision, token_budget) ==
    LET out == Elements(decision.page_out)
        shelved == [i \in 1..Len(inv) |->
                       IF inv[i].id \in out THEN [inv[i] EXCEPT !.status = "Shelved"]
                       ELSE inv[i]]
        wanted == {shelved[i].id : i \in {j \in 1..Len(inv) :
                      /\ shelved[j].status = "Shelved"
                      /\ shelved[j].id \in Elements(decision.page_in) \ out}}
    IN  RejectExcess(shelved, wanted, token_budget)

\* Step 5: the system_context composed from the Active segments.
SystemContext(inv) ==
    LET active == SelectSeq(inv, LAMBDA s : s.status = "Active")
    IN  IF active = <<>> THEN None
        ELSE Some([i \in 1..Len(active) |-> active[i].id])

\* ------------------------------------------------------------- LlmHandler
\* AnthropicClient::messages: one POST; http is what the server answers to
\* the successive requests of the call, of which the first alone is sent.
MaxRequests == 2

\* What the API server does with a request: it answers 200 with a
\* MessagesResponse or with a body that is none, or 429, or 500, or the
\* request fails on the way.
HttpOutcomes == {"200", "200 invalid body", "429", "500", "network failure"}

LlmOk == [ok |-> TRUE, error |-> "", requests |-> 1]

LlmError(e) == [ok |-> FALSE, error |-> e, requests |-> 1]

ClientMessages(http) ==
    IF http[1] = "network failure" THEN LlmError("Http")
    ELSE IF http[1] = "429" THEN LlmError("RateLimited")
    ELSE IF http[1] = "500" THEN LlmError("ApiError")
    ELSE IF http[1] = "200 invalid body" THEN LlmError("InvalidResponse")
    ELSE LlmOk

\* LlmPool::complete
PoolComplete(http) == ClientMessages(http)

\* The <LlmRequest> payloads: max_tokens absent, not a number or a number,
\* with or without messages.
MaxTokensTexts == {"", "abc", "500", "2500"}

LlmRequests ==
    {[max_tokens |-> m, messages |-> n] : m \in MaxTokensTexts, n \in 0..1}

\* str::parse::<u32> on the texts above.
ParseU32(text) ==
    CASE text = "500" -> Some(500)
      [] text = "2500" -> Some(2500)
      [] text = "4096" -> Some(4096)
      [] OTHER -> None

\* parse_llm_request(xml)
ParseLlmRequest(xml) ==
    LET max_tokens == ParseU32(IF xml.max_tokens = "" THEN "4096" ELSE xml.max_tokens)
    IN  IF ~max_tokens.some THEN [ok |-> FALSE, max_tokens |-> 0]
        ELSE IF xml.messages = 0 THEN [ok |-> FALSE, max_tokens |-> 0]
        ELSE [ok |-> TRUE, max_tokens |-> max_tokens.v]

\* u32::saturating_sub
SaturatingSub(a, b) == IF a >= b THEN a - b ELSE 0

Handlers == {"h1", "h2"}

\* A handler task outside handle; curated tells whether a system_context
\* of the Librarian has been joined to the request's system prompt.
Resting == [pc |-> "idle", max_tokens |-> 0, curated |-> FALSE, result |-> "none",
            llm |-> LlmOk]

NoCuration == [phase |-> "none", by |-> NOBODY, token_budget |-> 0, before |-> <<>>,
               answer |-> <<>>, decision |-> CurationDecision(<<>>, <<>>), after |-> <<>>]

\* handle: the payload is parsed; a payload that does not parse is answered
\* with an error reply at once.
HandleStart(h, xml) ==
    LET request == ParseLlmRequest(xml) IN
    /\ handler[h].pc = "idle"
    /\ handler' = [handler EXCEPT ![h] =
          IF ~request.ok THEN [Resting EXCEPT !.pc = "replied", !.result = "Ok(Reply error)"]
          ELSE [Resting EXCEPT !.pc = IF librarian THEN "lock librarian" ELSE "lock pool",
                               !.max_tokens = request.max_tokens]]
    /\ UNCHANGED <<inventory, librarian, libLock, poolLock, curation>>
    /\ UNCHANGED <<kvars, pvars, tvars, svars, rvars, bvars, uvars>>

\* librarian.lock().await, and the budget of the curation.
LibrarianLock(h) ==
    /\ handler[h].pc = "lock librarian"
    /\ libLock = NOBODY
    /\ libLock' = h
    /\ curation' = [NoCuration EXCEPT !.phase = "started", !.by = h,
                       !.token_budget = SaturatingSub(handler[h].max_tokens, 1000)]
    /\ handler' = [handler EXCEPT ![h].pc = "curate"]
    /\ UNCHANGED <<inventory, librarian, poolLock>>
    /\ UNCHANGED <<kvars, pvars, tvars, svars, rvars, bvars, uvars>>

\* curate, step 1: the kernel is locked and the inventory is read.
CurateSnapshot(h) ==
    /\ handler[h].pc = "curate"
    /\ lock = NOBODY
    /\ lock' = h
    /\ curation' = [curation EXCEPT !.phase = "snapshot", !.before = inventory]
    /\ handler' = [handler EXCEPT ![h].pc = "snapshot"]
    /\ UNCHANGED <<inventory, librarian, libLock, poolLock>>
    /\ UNCHANGED <<task, jlog, appliedOps>>
    /\ UNCHANGED <<kvars, pvars, svars, rvars, bvars, uvars>>

\* curate, step 2: the kernel is unlocked and the mutex of the LlmPool the
\* Librarian was built over (Librarian::new(pool.clone(), kernel)) is
\* granted for the call of the curation LLM.
CuratePoolLock(h) ==
    /\ handler[h].pc = "snapshot"
    /\ poolLock = NOBODY
    /\ poolLock' = h
    /\ lock' = NOBODY
    /\ curation' = [curation EXCEPT !.phase = "asked"]
    /\ handler' = [handler EXCEPT ![h].pc = "curate call"]
    /\ UNCHANGED <<inventory, librarian, libLock>>
    /\ UNCHANGED <<task, jlog, appliedOps>>
    /\ UNCHANGED <<kvars, pvars, svars, rvars, bvars, uvars>>

\* curate, step 3: the call of the curation LLM returns and the mutex of
\* the pool is given back; the answer of a call that succeeded is parsed.
\* When the call failed curate returns Err and handle goes on without
\* curation.
CurateComplete(h, http, answer) ==
    /\ handler[h].pc = "curate call"
    /\ poolLock' = NOBODY
    /\ IF PoolComplete(http).ok
       THEN /\ curation' = [curation EXCEPT
                               !.phase = "decided", !.answer = answer,
                               !.decision = ParseCurationResponse(AnswerText(answer))]
            /\ handler' = [handler EXCEPT ![h].pc = "decided"]
            /\ UNCHANGED libLock
       ELSE /\ curation' = [curation EXCEPT !.phase = "failed"]
            /\ handler' = [handler EXCEPT ![h].pc = "lock pool"]
            /\ libLock' = NOBODY
    /\ UNCHANGED <<inventory, librarian>>
    /\ UNCHANGED <<kvars, pvars, tvars, svars, rvars, bvars, uvars>>

\* curate, step 4: the kernel is locked and the statuses are set.
CurateApply(h) ==
    /\ handler[h].pc = "decided"
    /\ lock = NOBODY
    /\ lock' = h
    /\ inventory' = CurateApplyDecision(inventory, curation.decision, curation.token_budget)
    /\ curation' = [curation EXCEPT !.phase = "applied"]
    /\ handler' = [handler EXCEPT ![h].pc = "applied"]
    /\ UNCHANGED <<librarian, libLock, poolLock>>
    /\ UNCHANGED <<task, jlog, appliedOps>>
    /\ UNCHANGED <<kvars, pvars, svars, rvars, bvars, uvars>>

\* curate, step 5, and its return to handle: the kernel is unlocked, the
\* system_context is joined to the request's system prompt and the guard of
\* the librarian is dropped.
CurateReturn(h) ==
    LET sys == SystemContext(inventory) IN
    /\ handler[h].pc = "applied"
    /\ lock' = NOBODY
    /\ libLock' = NOBODY
    /\ curation' = [curation EXCEPT !.phase = "returned", !.after = inventory]
    /\ handler' = [handler EXCEPT
          ![h].pc = "lock pool",
          ![h].curated = sys.some]
    /\ UNCHANGED <<inventory, librarian, poolLock>>
    /\ UNCHANGED <<task, jlog, appliedOps>>
    /\ UNCHANGED <<kvars, pvars, svars, rvars, bvars, uvars>>

\* self.pool.lock().await without the test that the mutex is free.
PoolLock_NoWait(h) ==
    /\ handler[h].pc = "lock pool"
    /\ poolLock' = h
    /\ handler' = [handler EXCEPT ![h].pc = "complete"]
    /\ curation' = IF curation.by = h THEN NoCuration ELSE curation
    /\ UNCHANGED <<inventory, librarian, libLock>>
    /\ UNCHANGED <<kvars, pvars, tvars, svars, rvars, bvars, uvars>>

\* self.pool.lock().await; what curate returned to this call is dropped.
PoolLock(h) ==
    /\ handler[h].pc = "lock pool"
    /\ poolLock = NOBODY
    /\ poolLock' = h
    /\ handler' = [handler EXCEPT ![h].pc = "complete"]
    /\ curation' = IF curation.by = h THEN NoCuration ELSE curation
    /\ UNCHANGED <<inventory, librarian, libLock>>
    /\ UNCHANGED <<kvars, pvars, tvars, svars, rvars, bvars, uvars>>

\* pool.complete(..).await as it would be with the error of the call
\* returned to the pipeline by the ? operator.
HandleComplete_PropagateError(h, http) ==
    /\ handler[h].pc = "complete"
    /\ poolLock' = NOBODY
    /\ handler' = [handler EXCEPT ![h] =
          [Resting EXCEPT !.pc = "replied",
                          !.llm = PoolComplete(http),
                          !.result = IF PoolComplete(http).ok THEN "Ok(Reply response)"
                                     ELSE "Err"]]
    /\ UNCHANGED <<inventory, librarian, libLock, curation>>
    /\ UNCHANGED <<kvars, pvars, tvars, svars, rvars, bvars, uvars>>

\* pool.complete(..).await and the reply: an error of the call is put in
\* an <LlmResponse><error> reply, and handle returns Ok.
HandleComplete(h, http) ==
    /\ handler[h].pc = "complete"
    /\ poolLock' = NOBODY
    /\ handler' = [handler EXCEPT ![h] =
          [Resting EXCEPT !.pc = "replied",
                          !.llm = PoolComplete(http),
                          !.result = IF PoolComplete(http).ok THEN "Ok(Reply response)"
                                     ELSE "Ok(Reply error)"]]
    /\ UNCHANGED <<inventory, librarian, libLock, curation>>
    /\ UNCHANGED <<kvars, pvars, tvars, svars, rvars, bvars, uvars>>

\* The reply has been taken by the pipeline.
HandleReturn(h) ==
    /\ handler[h].pc = "replied"
    /\ handler' = [handler EXCEPT ![h] = Resting]
    /\ UNCHANGED <<inventory, librarian, libLock, poolLock, curation>>
    /\ UNCHANGED <<kvars, pvars, tvars, svars, rvars, bvars, uvars>>

\* LlmHandler::new(pool) over a thread without segments.
LInit ==
    /\ inventory = <<>>
    /\ librarian = FALSE
    /\ libLock = NOBODY
    /\ poolLock = NOBODY
    /\ curation = NoCuration
    /\ handler = [h \in Handlers |-> Resting]

\* ------------------------------------------------------------ PortManager
\* The ports the listeners of the organism declare at most, taken together.
MaxPorts == 3

PortListeners == {"listener-a", "listener-b"}

PortNumbers == {8080, 443}

\* The direction and protocol texts of a port definition of the organism.
DirectionTexts == {"inbound", "outbound", "sideways"}

ProtocolTexts == {<<"H", "T", "T", "P", "S">>, <<"f", "t", "p">>}

PortDefs ==
    [port : PortNumbers, direction : DirectionTexts, protocol : ProtocolTexts]

\* u16 as format! writes it
DisplayPort(port) == ToString(port)

\* match port_def.direction.as_str()
ParseDirection(text) ==
    CASE text = "inbound" -> Some("Inbound")
      [] text = "outbound" -> Some("Outbound")
      [] OTHER -> None

\* impl Display for Direction
DisplayDirection(direction) == IF direction = "Inbound" THEN "inbound" ELSE "outbound"

\* str::to_lowercase on a text of ASCII characters
UpperCase ==
    <<"A", "B", "C", "D", "E", "F", "G", "H", "I", "J", "K", "L", "M",
      "N", "O", "P", "Q", "R", "S", "T", "U", "V", "W", "X", "Y", "Z">>

LowerCase ==
    <<"a", "b", "c", "d", "e", "f", "g", "h", "i", "j", "k", "l", "m",
      "n", "o", "p", "q", "r", "s", "t", "u", "v", "w", "x", "y", "z">>

ToLowercase(s) ==
    [i \in 1..Len(s) |->
        IF \E k \in 1..Len(UpperCase) : UpperCase[k] = s[i]
        THEN LowerCase[CHOOSE k \in 1..Len(UpperCase) : UpperCase[k] = s[i]]
        ELSE s[i]]

\* Protocol::from_str_lc: the match is on the text in lower case, and the
\* error shows the text as it was given.
FromStrLc(s) ==
    LET lower == ToLowercase(s)
    IN  CASE lower = <<"h", "t", "t", "p">> -> [ok |-> TRUE, v |-> "Http", error |-> <<>>]
          [] lower = <<"h", "t", "t", "p", "s">> -> [ok |-> TRUE, v |-> "Https", error |-> <<>>]
          [] lower = <<"t", "c", "p">> -> [ok |-> TRUE, v |-> "Tcp", error |-> <<>>]
          [] lower = <<"u", "d", "p">> -> [ok |-> TRUE, v |-> "Udp", error |-> <<>>]
          [] OTHER -> [ok |-> FALSE, v |-> "",
                       error |-> <<"unknown protocol: '">> \o s \o <<"'">>]

PortDeclaration(port, direction, protocol) ==
    [port |-> port, direction |-> direction, protocol |-> protocol]

\* PortManager::new()
NewPortManager == [l \in {} |-> <<>>]

PmOk(allocations) == [ok |-> TRUE, pm |-> allocations, error |-> <<>>]

PmErr(error) == [ok |-> FALSE, pm |-> NewPortManager, error |-> error]

\* PortManager::declare(listener, decl) as it would be without the test
\* for conflicts.
Declare_NoConflictTest(allocations, listener, decl) ==
    PmOk([l \in DOMAIN allocations \cup {listener} |->
             IF l = listener
             THEN (IF l \in DOMAIN allocations THEN allocations[l] ELSE <<>>) \o <<decl>>
             ELSE allocations[l]])

\* PortManager::declare(listener, decl).  The allocations never hold the
\* same port and direction for two listeners, so the order in which the
\* HashMap is walked does not show in the message.
Declare(allocations, listener, decl) ==
    LET holders == {e \in DOMAIN allocations :
                       /\ e # listener
                       /\ \E i \in 1..Len(allocations[e]) :
                             /\ allocations[e][i].port = decl.port
                             /\ allocations[e][i].direction = decl.direction}
        existing_listener == CHOOSE e \in holders : TRUE
    IN  IF holders # {}
        THEN [ok |-> FALSE, pm |-> allocations,
              error |-> <<"port conflict: ", DisplayDirection(decl.direction), " port ",
                          DisplayPort(decl.port), " already declared by '", existing_listener,
                          "', cannot declare for '", listener, "'">>]
        ELSE PmOk([l \in DOMAIN allocations \cup {listener} |->
                      IF l = listener
                      THEN (IF l \in DOMAIN allocations THEN allocations[l] ELSE <<>>)
                           \o <<decl>>
                      ELSE allocations[l]])

\* The orders in which a HashMap of the listeners may be walked.
ListenerOrders ==
    {order \in [1..Cardinality(PortListeners) -> PortListeners] :
        \A i, j \in DOMAIN order : i # j => order[i] # order[j]}

\* PortManager::all_ports(): every declaration with its listener, the
\* listeners in the order the HashMap yields them (order, of which the
\* listeners without allocations are passed over) and the declarations of
\* one listener in the order they were made.
RECURSIVE AllPorts(_, _)
AllPorts(allocations, order) ==
    IF order = <<>> THEN <<>>
    ELSE (IF Head(order) \in DOMAIN allocations
          THEN [i \in 1..Len(allocations[Head(order)]) |->
                   [listener |-> Head(order), decl |-> allocations[Head(order)][i]]]
          ELSE <<>>)
         \o AllPorts(allocations, Tail(order))

\* PortManager::validate(), the two loops: every pair of declarations i < j
\* is compared once, and a conflict pushes its message.
RECURSIVE ValidatePairs(_, _, _)
ValidatePairs(all, i, j) ==
    IF i > Len(all) THEN <<>>
    ELSE IF j > Len(all) THEN ValidatePairs(all, i + 1, i + 2)
    ELSE (IF /\ all[i].listener # all[j].listener
             /\ all[i].decl.port = all[j].decl.port
             /\ all[i].decl.direction = all[j].decl.direction
          THEN << <<"port conflict: ", DisplayDirection(all[i].decl.direction), " port ",
                    DisplayPort(all[i].decl.port), " declared by both '", all[i].listener,
                    "' and '", all[j].listener, "'">> >>
          ELSE <<>>)
         \o ValidatePairs(all, i, j + 1)

\* PortManager::validate(): the Vec of the messages of the conflicts among
\* all the declarations, empty for Ok(()).
Validate(allocations, order) == ValidatePairs(AllPorts(allocations, order), 1, 2)

\* errs.join("; ")
RECURSIVE JoinErrors(_)
JoinErrors(errs) ==
    IF errs = <<>> THEN <<>>
    ELSE IF Len(errs) = 1 THEN errs[1]
    ELSE errs[1] \o <<"; ">> \o JoinErrors(Tail(errs))

\* with_port_manager, the inner loop: the port definitions of one listener.
RECURSIVE DeclarePorts(_, _, _)
DeclarePorts(allocations, listener, defs) ==
    IF defs = <<>> THEN PmOk(allocations)
    ELSE LET port_def == Head(defs)
             direction == ParseDirection(port_def.direction)
             protocol == FromStrLc(port_def.protocol)
             declared == Declare(allocations, listener,
                                 PortDeclaration(port_def.port, direction.v, protocol.v))
         IN  IF ~direction.some
             THEN PmErr(<<"invalid port direction '", port_def.direction,
                          "' on listener '", listener, "'">>)
             ELSE IF ~protocol.ok
             THEN PmErr(<<"listener '", listener, "': ">> \o protocol.error)
             ELSE IF ~declared.ok THEN declared
             ELSE DeclarePorts(declared.pm, listener, Tail(defs))

\* with_port_manager, the outer loop over organism.listeners().values().
RECURSIVE DeclareListeners(_, _)
DeclareListeners(allocations, listeners) ==
    IF listeners = <<>> THEN PmOk(allocations)
    ELSE LET one == DeclarePorts(allocations, Head(listeners).name, Head(listeners).ports)
         IN  IF ~one.ok THEN one ELSE DeclareListeners(one.pm, Tail(listeners))

\* AgentPipelineBuilder::with_port_manager as a function of the listeners
\* and of the order in which validate walks the allocations.
WithPortManagerResult(listeners, order) ==
    LET declared == DeclareListeners(NewPortManager, listeners)
    IN  IF ~declared.ok THEN declared
        ELSE IF Validate(declared.pm, order) # <<>>
        THEN PmErr(JoinErrors(Validate(declared.pm, order)))
        ELSE declared

\* AgentPipelineBuilder::new(organism, data_dir)
NewBuilder == [stage |-> "builder", port_manager |-> None, error |-> <<>>]

\* The organisms a pipeline is built from: the two listeners declare up to
\* MaxPorts ports between them, and listeners().values() yields them in
\* either order.
PortOrganismsOf(l1, l2, n1, n2) ==
    {<<[name |-> l1, ports |-> p1], [name |-> l2, ports |-> p2]>> :
        p1 \in [1..n1 -> PortDefs], p2 \in [1..n2 -> PortDefs]}

PortCounts ==
    {r \in PortListeners \X PortListeners \X (0..MaxPorts) \X (0..MaxPorts) :
        r[1] # r[2] /\ r[3] + r[4] <= MaxPorts}

\* No AgentPipeline has been made: there is no table and no organism it was
\* compiled from.
NoOrganism == Org("", {}, EmptyFn)

\* Kernel::open(data_dir), then SecurityResolver::from_organism(&organism)?,
\* then Pipeline::new, as AgentPipeline::new and AgentPipelineBuilder::build
\* run them.  The kernel's stores are what the replay of the WAL gives; a
\* kernel that was opened is dropped again when the table does not compile.
\* The model follows one kernel over the data directory, so the directory is
\* one no live kernel has open.
Construct(opened) ==
    /\ ~up
    /\ wal' = IF opened THEN WalReplay(wal) ELSE wal
    /\ IF opened /\ Compilable(organism)
       THEN /\ LET K == OpenFrom(wal, uuidCtr) IN
                /\ threads' = K.threads
                /\ root' = K.root
                /\ contexts' = K.contexts
                /\ journal' = K.journal
                /\ uuidCtr' = K.ctr
            /\ up' = TRUE
            /\ lastOp' = [NoOp EXCEPT !.op = "open", !.seq = calls]
            /\ security' = CompileTable(organism)
            /\ compiled' = organism
            /\ inflight' = {}
            /\ handled' = {}
            /\ failed' = {}
            /\ lastInject' = NoInject
            /\ lastReload' = [result |-> "none", event |-> ReloadEvent(organism, organism)]
       ELSE /\ lastOp' = [NoOp EXCEPT !.op = "open", !.result = "err", !.seq = calls]
            /\ UNCHANGED <<threads, root, contexts, journal, up, uuidCtr>>
            /\ UNCHANGED <<security, compiled, inflight, handled, failed, lastInject,
                           lastReload>>
    /\ UNCHANGED <<organism, calls, faults, expected, how, born, replica>>

\* AgentPipeline::new(organism, data_dir): the pipeline without a builder.
PipelineNew(opened) ==
    /\ Construct(opened)
    /\ UNCHANGED xvars

\* builder.with_port_manager(): Err consumes the builder.
WithPortManager(order) ==
    LET result == WithPortManagerResult(port_listeners, order) IN
    /\ builder.stage = "builder"
    /\ ~builder.port_manager.some
    /\ builder' = IF result.ok THEN [builder EXCEPT !.port_manager = Some(result.pm)]
                  ELSE [builder EXCEPT !.stage = "failed", !.error = result.error]
    /\ UNCHANGED port_listeners
    /\ UNCHANGED <<kvars, pvars, tvars, svars, yvars, uvars>>

\* AgentPipelineBuilder::new(organism, data_dir) once more: the builder of
\* the next session, over the same organism and data directory.
BuilderNew ==
    /\ builder.stage # "builder"
    /\ builder' = NewBuilder
    /\ UNCHANGED port_listeners
    /\ UNCHANGED <<kvars, pvars, tvars, svars, yvars, uvars>>

\* builder.build(): the kernel is opened on the data directory and its WAL
\* replayed, the security table compiled and the AgentPipeline made; the
\* port manager of the builder is not looked at.  Either Err consumes the
\* builder and leaves no pipeline and no kernel.
Build(opened) ==
    /\ builder.stage = "builder"
    /\ Construct(opened)
    /\ builder' = IF ~opened
                  THEN [builder EXCEPT !.stage = "failed",
                                       !.error = <<"kernel open failed: ", "io">>]
                  ELSE IF ~Compilable(organism)
                  THEN [builder EXCEPT !.stage = "failed", !.error = <<"from_organism">>]
                  ELSE [builder EXCEPT !.stage = "built"]
    /\ UNCHANGED port_listeners
    /\ UNCHANGED <<tvars, svars, yvars, uvars>>

\* The declarations made on a PortManager on its own, at most.
MaxDeclares == 3

PortDeclarations ==
    {PortDeclaration(port, direction, protocol) :
        port \in PortNumbers, direction \in {"Inbound", "Outbound"},
        protocol \in {"Http", "Tcp"}}

NoDeclare == [called |-> FALSE, listener |-> "", decl |-> PortDeclaration(0, "", ""),
              ok |-> TRUE, before |-> NewPortManager]

\* pm.declare(listener, decl) on the PortManager, and what it returned.
PmDeclare(listener, decl) ==
    LET result == Declare(pm.allocations, listener, decl) IN
    /\ pm.declares < MaxDeclares
    /\ pm' = [allocations |-> result.pm,
              declares |-> pm.declares + 1,
              last |-> [called |-> TRUE, listener |-> listener, decl |-> decl,
                        ok |-> result.ok, before |-> pm.allocations]]
    /\ UNCHANGED <<lastCosine, lastFill, il, app, filler>>
    /\ UNCHANGED <<kvars, pvars, tvars, svars, yvars, bvars>>

\* PortManager::new() and no call of cosine_similarity.
\* ---------------------------------------------------------------- InputLine
\* The content of an InputLine is a String: the sequence of its characters,
\* stored as UTF-8, so that a character offset and a byte offset differ
\* after a character of more than one byte.
Utf8Len(ch) ==
    IF ch \in WhiteSpace2 \cup {"é"} THEN 2
    ELSE IF ch \in WhiteSpace3 THEN 3
    ELSE 1

\* String::len: the number of bytes.
RECURSIVE StrLen(_)
StrLen(content) == IF content = <<>> THEN 0 ELSE Utf8Len(Head(content)) + StrLen(Tail(content))

\* char_to_byte(char_pos): the byte offset of the character at char_pos,
\* the length in bytes when there is no such character.
CharToByte(content, char_pos) ==
    IF char_pos < Len(content) THEN StrLen(SubSeq(content, 1, char_pos)) ELSE StrLen(content)

\* The number of characters before the byte offset b, which is a character
\* boundary.
CharsBefore(content, b) ==
    CHOOSE k \in 0..Len(content) : StrLen(SubSeq(content, 1, k)) = b

\* String::insert_str(b, text)
StringInsert(content, b, text) ==
    LET k == CharsBefore(content, b)
    IN  SubSeq(content, 1, k) \o text \o SubSeq(content, k + 1, Len(content))

\* String::replace_range(from..to, "")
StringRemove(content, from, to) ==
    SubSeq(content, 1, CharsBefore(content, from))
        \o SubSeq(content, CharsBefore(content, to) + 1, Len(content))

\* InputLine::new
NewInputLine == [content |-> <<>>, cursor |-> 0, panicked |-> FALSE]

Panicked(line) == [line EXCEPT !.panicked = TRUE]

\* byte_offset()
ByteOffset(line) == CharToByte(line.content, line.cursor)

\* clear()
ClearLine(line) == [line EXCEPT !.content = <<>>, !.cursor = 0]

\* set_content(text)
SetContent(line, text) == [line EXCEPT !.content = text, !.cursor = Len(text)]

\* take(): the trimmed content when it is not empty, and the line after it.
TakeLine(line) ==
    LET text == Trim(line.content)
    IN  IF text = <<>> THEN [some |-> FALSE, text |-> <<>>, line |-> line]
        ELSE [some |-> TRUE, text |-> text, line |-> ClearLine(line)]

\* insert_char(ch)
InsertChar(line, ch) ==
    IF ch = "\r" THEN line
    ELSE [line EXCEPT !.content = StringInsert(line.content, ByteOffset(line), <<ch>>),
                      !.cursor = line.cursor + 1]

\* str::replace("\r\n", "\n")
RECURSIVE ReplaceCrLf(_)
ReplaceCrLf(text) ==
    IF text = <<>> THEN <<>>
    ELSE IF Len(text) >= 2 /\ text[1] = "\r" /\ text[2] = "\n"
    THEN <<"\n">> \o ReplaceCrLf(SubSeq(text, 3, Len(text)))
    ELSE <<Head(text)>> \o ReplaceCrLf(Tail(text))

\* insert_str(text)
InsertStr(line, text) ==
    LET clean == SelectSeq(ReplaceCrLf(text), LAMBDA ch : ch # "\r")
    IN  [line EXCEPT !.content = StringInsert(line.content, ByteOffset(line), clean),
                     !.cursor = line.cursor + Len(clean)]

\* delete_back()
DeleteBack(line) ==
    IF line.cursor = 0 THEN line
    ELSE LET moved == [line EXCEPT !.cursor = line.cursor - 1]
             b == ByteOffset(moved)
         IN  IF b >= StrLen(line.content) THEN Panicked(moved)
             ELSE [moved EXCEPT !.content =
                      StringRemove(line.content, b,
                                   b + Utf8Len(line.content[CharsBefore(line.content, b) + 1]))]

\* delete_forward()
DeleteForward(line) ==
    LET b == ByteOffset(line)
    IN  IF b >= StrLen(line.content) THEN line
        ELSE [line EXCEPT !.content =
                 StringRemove(line.content, b,
                              b + Utf8Len(line.content[CharsBefore(line.content, b) + 1]))]

\* move_left()
MoveLeft(line) == [line EXCEPT !.cursor = IF line.cursor = 0 THEN 0 ELSE line.cursor - 1]

\* move_right() as it would be without the test against the length.
MoveRight_NoTest(line) == [line EXCEPT !.cursor = line.cursor + 1]

\* move_right()
MoveRight(line) ==
    IF line.cursor < Len(line.content) THEN [line EXCEPT !.cursor = line.cursor + 1] ELSE line

\* move_home()
MoveHome(line) == [line EXCEPT !.cursor = 0]

\* move_end()
MoveEnd(line) == [line EXCEPT !.cursor = Len(line.content)]

\* set_cursor(pos)
SetCursor(line, pos) ==
    [line EXCEPT !.cursor = IF pos < Len(line.content) THEN pos ELSE Len(line.content)]

\* The loops of delete_word_back: pos goes back while the character before
\* it is whitespace (ws) or is not (~ws).
RECURSIVE SkipBack(_, _, _)
SkipBack(chars, pos, ws) ==
    IF pos > 0 /\ ((chars[pos] \in WhiteSpace) <=> ws) THEN SkipBack(chars, pos - 1, ws) ELSE pos

\* delete_word_back()
DeleteWordBack(line) ==
    IF line.cursor = 0 THEN line
    ELSE IF line.cursor > Len(line.content) THEN Panicked(line)
    ELSE LET pos == SkipBack(line.content, SkipBack(line.content, line.cursor, TRUE), FALSE)
         IN  [line EXCEPT !.content = StringRemove(line.content,
                                                   CharToByte(line.content, pos),
                                                   ByteOffset(line)),
                          !.cursor = pos]

\* The operations called on the InputLine il; content is kept to MaxInput
\* characters.
MaxInput == 3

InputChars == {"a", " ", "é", "\r", "\f", "U+3000"}

InputStrs == {<<>>, <<"a", "é">>, <<"\r", "\n">>, <<" ", "a">>, <<"é", "\r", " ">>,
              <<"a", "\f", "a">>, <<"U+00A0">>}

LineOf(v) == [content |-> v.content, cursor |-> v.cursor, panicked |-> v.panicked]

IlCall(op, line) ==
    /\ Len(line.content) <= MaxInput
    /\ il' = [op |-> op, pos |-> 0, taken |-> <<>>] @@ line
    /\ UNCHANGED <<lastCosine, lastFill, app, pm, filler>>
    /\ UNCHANGED <<kvars, pvars, tvars, svars, yvars, bvars>>

IlClear == IlCall("clear", ClearLine(LineOf(il)))

IlSetContent(text) == IlCall("set_content", SetContent(LineOf(il), text))

IlTake ==
    /\ Len(il.content) <= MaxInput
    /\ il' = [op |-> "take", pos |-> 0, taken |-> TakeLine(LineOf(il)).text]
             @@ TakeLine(LineOf(il)).line
    /\ UNCHANGED <<lastCosine, lastFill, app, pm, filler>>
    /\ UNCHANGED <<kvars, pvars, tvars, svars, yvars, bvars>>

IlInsertChar(ch) == IlCall("insert_char", InsertChar(LineOf(il), ch))

IlInsertStr(text) == IlCall("insert_str", InsertStr(LineOf(il), text))

IlDeleteBack == IlCall("delete_back", DeleteBack(LineOf(il)))

IlDeleteForward == IlCall("delete_forward", DeleteForward(LineOf(il)))

IlDeleteWordBack == IlCall("delete_word_back", DeleteWordBack(LineOf(il)))

IlMoveLeft == IlCall("move_left", MoveLeft(LineOf(il)))

IlMoveRight == IlCall("move_right", MoveRight(LineOf(il)))

IlMoveHome == IlCall("move_home", MoveHome(LineOf(il)))

IlMoveEnd == IlCall("move_end", MoveEnd(LineOf(il)))

IlSetCursor(pos) ==
    /\ il' = [op |-> "set_cursor", pos |-> pos, taken |-> <<>>] @@ SetCursor(LineOf(il), pos)
    /\ UNCHANGED <<lastCosine, lastFill, app, pm, filler>>
    /\ UNCHANGED <<kvars, pvars, tvars, svars, yvars, bvars>>

\* ------------------------------------------------------------------- TuiApp
\* A KeyEvent: its code, the character of a Char code, and its modifiers.
KeyOf(code) == [code |-> code, ch |-> "", modifiers |-> {}]

CharKey(ch) == [code |-> "Char", ch |-> ch, modifiers |-> {}]

CtrlKey(ch) == [code |-> "Char", ch |-> ch, modifiers |-> {"CONTROL"}]

\* TabId
AgentTab(name) == [kind |-> "Agent", name |-> name]

UtilityTab(kind) == [kind |-> kind, name |-> ""]

\* TabId::is_agent
IsAgent(tab) == tab.kind = "Agent"

\* The texts of the model, as Strings.
FormFeedSlash == <<"\f", "/">>

SlashM == <<"/", "m">>

SlashModel == <<"/", "m", "o", "d", "e", "l", " ">>

\* TuiApp::new: the planner tab alone, nothing pending, the agent idle.
NewTuiApp ==
    [should_quit |-> FALSE,
     selection |-> FALSE,
     several_lines |-> FALSE,
     messages_focus |-> "Input",
     pending_approval |-> None,
     verdicts |-> <<>>,
     menu_active |-> FALSE,
     input_mode |-> "Normal",
     pending_provider_completion |-> None,
     open_tabs |-> <<AgentTab("planner")>>,
     active_tab |-> AgentTab("planner"),
     yaml_editor |-> FALSE,
     debug_mode |-> FALSE,
     threads_focus |-> "ThreadList",
     command_popup_index |-> 0,
     input_line |-> NewInputLine,
     agent_status |-> "Idle",
     pending_task |-> None,
     pending_command |-> None]

\* text_selection.active = false: no text is selected, so none over
\* several lines; several_lines is active && start_line != end_line.
Unselect(a) == [a EXCEPT !.selection = FALSE, !.several_lines = FALSE]

\* TuiApp::input_text, set_input_text, clear_input and take_input, which
\* hand over to the InputLine of the application.
InputText(a) == a.input_line.content

SetInputText(a, text) == [a EXCEPT !.input_line = SetContent(a.input_line, text)]

ClearInput(a) == [a EXCEPT !.input_line = ClearLine(a.input_line)]

\* push_feedback(app, text), and every other push of an entry to chat_log:
\* the log is shown and scrolled, and is not part of the application that
\* is modelled.
PushFeedback(a, text) == a

\* TuiApp::close_tab(tab): the tab leaves open_tabs; when it was the active
\* one the first tab left becomes active.  The last tab is not closed.
CloseTab(a, tab) ==
    LET left == SelectSeq(a.open_tabs, LAMBDA t : t # tab)
    IN  IF left = <<>> THEN a
        ELSE [a EXCEPT !.open_tabs = left,
                       !.active_tab = IF a.active_tab = tab THEN left[1] ELSE a.active_tab]

\* toggle_utility_tab(app, tab)
ToggleUtilityTab(a, tab) ==
    IF a.active_tab = tab THEN CloseTab(a, tab)
    ELSE IF \E i \in DOMAIN a.open_tabs : a.open_tabs[i] = tab
    THEN [a EXCEPT !.active_tab = tab]
    ELSE [a EXCEPT !.open_tabs = Append(a.open_tabs, tab), !.active_tab = tab]

\* TuiApp::open_agent_tab(name): the tab of the agent becomes the active
\* one, and is opened first when it is not open.
OpenAgentTab(a, name) ==
    IF \E i \in DOMAIN a.open_tabs : a.open_tabs[i] = AgentTab(name)
    THEN [a EXCEPT !.active_tab = AgentTab(name)]
    ELSE [a EXCEPT !.open_tabs = Append(a.open_tabs, AgentTab(name)),
                   !.active_tab = AgentTab(name)]

\* dispatch_menu_action(app, action)
DispatchMenuAction(a, action) ==
    LET closed == [a EXCEPT !.menu_active = FALSE]
    IN  CASE action.kind = "SwitchTab" -> [closed EXCEPT !.active_tab = action.tab]
          [] action.kind = "NewTask" -> ClearInput(closed)
          [] action.kind = "Quit" -> [closed EXCEPT !.should_quit = TRUE]
          [] action.kind = "SetModel" -> SetInputText(closed, SlashModel)
          [] action.kind = "ShowAbout" -> PushFeedback(closed, <<"AgentOS">>)
          [] action.kind = "ShowShortcuts" -> PushFeedback(closed, <<"Keyboard shortcuts:">>)
          [] action.kind = "CloseTab" -> CloseTab(closed, closed.active_tab)
          [] action.kind = "OpenAgentTab" -> OpenAgentTab(closed, action.tab.name)
          [] OTHER -> closed

\* The tool approval mode of handle_key as it would be if the keys that
\* neither approve nor deny went on to the rest of handle_key.
ApprovalMode_FallThrough(a, key) ==
    IF (key.code = "Char" /\ key.ch = "1") \/ key.code = "Enter"
    THEN [done |-> TRUE,
          app |-> PushFeedback([a EXCEPT !.pending_approval = None,
                                         !.verdicts = Append(a.verdicts, "Approved")],
                               <<"Approved: ", a.pending_approval.v>>)]
    ELSE IF (key.code = "Char" /\ key.ch = "2") \/ key.code = "Esc"
    THEN [done |-> TRUE,
          app |-> PushFeedback([a EXCEPT !.pending_approval = None,
                                         !.verdicts = Append(a.verdicts, "Denied")],
                               <<"Denied: ", a.pending_approval.v>>)]
    ELSE [done |-> FALSE, app |-> a]

\* The tool approval mode of handle_key, entered when pending_approval is
\* Some: the request is taken and its verdict sent on its channel, whose
\* sends are verdicts; done says that handle_key returns.
ApprovalMode(a, key) ==
    IF (key.code = "Char" /\ key.ch = "1") \/ key.code = "Enter"
    THEN [done |-> TRUE,
          app |-> PushFeedback([a EXCEPT !.pending_approval = None,
                                         !.verdicts = Append(a.verdicts, "Approved")],
                               <<"Approved: ", a.pending_approval.v>>)]
    ELSE IF (key.code = "Char" /\ key.ch = "2") \/ key.code = "Esc"
    THEN [done |-> TRUE,
          app |-> PushFeedback([a EXCEPT !.pending_approval = None,
                                         !.verdicts = Append(a.verdicts, "Denied")],
                               <<"Denied: ", a.pending_approval.v>>)]
    ELSE [done |-> TRUE, app |-> a]

\* What handle_key gets from outside the application: the text of the
\* clipboard when there is one, the action of the menu item that select()
\* selects when there is one, and whether the YAML editor has nothing to
\* dismiss and its content is valid YAML.
External(clipboard, menu_action, yaml_plain) ==
    [clipboard |-> clipboard, menu_action |-> menu_action, yaml_plain |-> yaml_plain]

\* InputLine::paste_clipboard
PasteClipboard(line, clipboard) ==
    IF clipboard.some
    THEN InsertStr(line, [i \in DOMAIN ReplaceCrLf(clipboard.v) |->
                             IF ReplaceCrLf(clipboard.v)[i] = "\r" THEN "\n"
                             ELSE ReplaceCrLf(clipboard.v)[i]])
    ELSE line

\* InputLine::handle_key
InputLineHandleKey(line, key, ext) ==
    LET ctrl == "CONTROL" \in key.modifiers IN
    CASE key.code = "Char" /\ key.ch = "v" /\ ctrl -> PasteClipboard(line, ext.clipboard)
      [] key.code = "Char" /\ key.ch = "w" /\ ctrl -> DeleteWordBack(line)
      [] key.code = "Backspace" /\ ctrl -> DeleteWordBack(line)
      [] key.code = "Char" /\ ~(key.ch \in {"v", "w"} /\ ctrl) -> InsertChar(line, key.ch)
      [] key.code = "Backspace" /\ ~ctrl -> DeleteBack(line)
      [] key.code = "Delete" -> DeleteForward(line)
      [] key.code = "Left" -> MoveLeft(line)
      [] key.code = "Right" -> MoveRight(line)
      [] key.code = "Home" -> MoveHome(line)
      [] key.code = "End" -> MoveEnd(line)
      [] OTHER -> line

ForwardToInput(a, key, ext) ==
    [a EXCEPT !.input_line = InputLineHandleKey(a.input_line, key, ext)]

\* The menu group that Alt and a letter open, when there is one.
MenuIndex(a, key) ==
    IF key.code # "Char" THEN None
    ELSE CASE key.ch = "f" -> Some(0)
           [] key.ch = "r" -> Some(1)
           [] key.ch = "i" -> Some(2)
           [] key.ch = "d" /\ a.debug_mode -> Some(3)
           [] key.ch = "h" -> Some(IF a.debug_mode THEN 4 ELSE 3)
           [] OTHER -> None

\* handle_key while the menu is active: the keys go to the menu, and the
\* action that Enter selects is dispatched.
MenuMode(a, key, ext) ==
    IF key.code = "Esc" THEN [a EXCEPT !.menu_active = FALSE]
    ELSE IF key.code = "Enter" /\ ext.menu_action.some
    THEN DispatchMenuAction(a, ext.menu_action.v)
    ELSE a

\* handle_key in the provider wizard.
WizardMode(a, key, ext) ==
    IF key.code = "Esc"
    THEN PushFeedback(ClearInput([a EXCEPT !.input_mode = "Normal"]),
                      <<"Provider wizard cancelled.">>)
    ELSE IF key.code = "Enter"
    THEN LET taken == TakeLine(a.input_line)
         IN  IF ~taken.some THEN a
             ELSE [a EXCEPT !.input_line = taken.line,
                            !.pending_provider_completion = Some(taken.text),
                            !.input_mode = "Normal"]
    ELSE ForwardToInput(a, key, ext)

\* The Ctrl shortcuts of handle_key: the tab of a position, and the
\* closing and toggling of tabs; done says that handle_key returns.
CtrlShortcuts(a, key) ==
    LET digits == <<"1", "2", "3", "4", "5", "6", "7", "8", "9">>
        Returns(next) == [done |-> TRUE, app |-> next]
    IN  IF "CONTROL" \notin key.modifiers \/ key.code # "Char"
        THEN [done |-> FALSE, app |-> a]
        ELSE IF \E i \in DOMAIN digits : digits[i] = key.ch
        THEN LET idx == CHOOSE i \in DOMAIN digits : digits[i] = key.ch
             IN  Returns(IF idx <= Len(a.open_tabs)
                         THEN [a EXCEPT !.active_tab = a.open_tabs[idx]] ELSE a)
        ELSE CASE key.ch = "w" -> Returns(CloseTab(a, a.active_tab))
               [] key.ch = "t" -> Returns(ToggleUtilityTab(a, UtilityTab("Threads")))
               [] key.ch = "g" -> Returns(ToggleUtilityTab(a, UtilityTab("Graph")))
               [] key.ch = "y" -> Returns(ToggleUtilityTab(a, UtilityTab("Yaml")))
               [] key.ch = "a" /\ a.debug_mode ->
                     Returns(ToggleUtilityTab(a, UtilityTab("Activity")))
               [] OTHER -> [done |-> FALSE, app |-> a]

\* handle_key on the YAML tab with its editor: the keys go to the editor.
YamlMode(a, key, ext) ==
    LET ctrl == "CONTROL" \in key.modifiers IN
    IF key.code = "Char" /\ key.ch = "s" /\ ctrl
    THEN IF ext.yaml_plain THEN PushFeedback(a, <<"YAML validated successfully.">>) ELSE a
    ELSE IF key.code = "Esc"
    THEN IF ext.yaml_plain THEN ClearInput(a) ELSE a
    ELSE a

\* The slash commands and the model names that the command line service
\* completes.
CommandNames == <<<<"/", "c", "l", "e", "a", "r">>, <<"/", "e", "x", "i", "t">>, SlashModel>>

ModelNames == <<<<"o", "p", "u", "s">>, <<"s", "o", "n", "n", "e", "t">>,
                <<"s", "o", "n", "n", "e", "t", "-", "4", ".", "5">>,
                <<"h", "a", "i", "k", "u">>>>

\* CommandLineService::completions(input, end of input): the commands that
\* input begins, or after "/model " the model names that its argument begins.
Completions(input) ==
    IF StartsWith(input, SlashModel)
    THEN SelectSeq(ModelNames,
                   LAMBDA m : StartsWith(m, SubSeq(input, Len(SlashModel) + 1, Len(input))))
    ELSE SelectSeq(CommandNames, LAMBDA c : StartsWith(c, input))

\* complete_token(input, completion)
CompleteToken(input, completion) ==
    IF StartsWith(completion, <<"/">>) THEN completion
    ELSE LET spaces == {i \in DOMAIN input : input[i] = " "}
             prefix == IF EndsWith(input, <<" ">>) \/ spaces = {} THEN input
                       ELSE SubSeq(input, 1, (CHOOSE i \in spaces : \A j \in spaces : j <= i) - 1)
         IN  IF EndsWith(prefix, <<" ">>) THEN prefix \o completion
             ELSE prefix \o <<" ">> \o completion

\* The command popup of handle_key; done says that handle_key returns.
CommandPopup(a, key) ==
    LET input == InputText(a)
        items == Completions(input)
        reset == [a EXCEPT !.command_popup_index = 0]
        has_item == a.command_popup_index < Len(items)
        completed == CompleteToken(input, items[a.command_popup_index + 1])
        Returns(next) == [done |-> TRUE, app |-> next]
        GoesOn(next) == [done |-> FALSE, app |-> next]
    IN  IF ~StartsWith(input, <<"/">>) \/ items = <<>> THEN GoesOn(reset)
        ELSE CASE key.code = "Up" ->
                    Returns(IF a.command_popup_index > 0
                            THEN [a EXCEPT !.command_popup_index = @ - 1] ELSE a)
               [] key.code = "Down" ->
                    Returns(IF a.command_popup_index + 1 < Len(items)
                            THEN [a EXCEPT !.command_popup_index = @ + 1] ELSE a)
               [] key.code = "Tab" ->
                    Returns(IF has_item THEN SetInputText(reset, completed) ELSE a)
               [] key.code = "Enter" ->
                    IF ~has_item THEN GoesOn(a)
                    ELSE IF EndsWith(completed, <<" ">>)
                    THEN Returns(SetInputText(reset, completed))
                    ELSE GoesOn(SetInputText(reset, completed))
               [] key.code = "Esc" -> Returns(ClearInput(reset))
               [] OTHER -> GoesOn(reset)

\* The Enter arm of handle_key as it would be without the test of
\* agent_status.
EnterSubmit_NoIdleTest(a) ==
    IF a.active_tab = UtilityTab("Threads") /\ a.threads_focus = "ContextTree" THEN a
    ELSE LET taken == TakeLine(a.input_line)
             cleared == [a EXCEPT !.input_line = taken.line]
         IN  IF ~taken.some THEN a
             ELSE IF StartsWith(taken.text, <<"/">>)
             THEN [cleared EXCEPT !.pending_command = Some(taken.text)]
             ELSE [cleared EXCEPT !.agent_status = "Thinking",
                                  !.pending_task = Some(taken.text)]

\* The Enter arm of handle_key: a slash command is always taken, a task
\* only while the agent is idle.
EnterSubmit(a) ==
    IF a.active_tab = UtilityTab("Threads") /\ a.threads_focus = "ContextTree" THEN a
    ELSE LET taken == TakeLine(a.input_line)
             cleared == [a EXCEPT !.input_line = taken.line]
         IN  IF ~taken.some THEN a
             ELSE IF StartsWith(taken.text, <<"/">>)
             THEN [cleared EXCEPT !.pending_command = Some(taken.text)]
             ELSE IF a.agent_status = "Idle"
             THEN [cleared EXCEPT !.agent_status = "Thinking",
                                  !.pending_task = Some(taken.text)]
             ELSE SetInputText(cleared, taken.text)

\* The match on the key code that ends handle_key; the arms that scroll
\* change nothing of the application that is modelled.  Left and Right on
\* an agent tab move the cursor when the focus is on the input and scroll
\* the messages otherwise; a key of no arm gives the focus to the input
\* on an agent tab and goes to the input line.
MainMatch(a, key, ext) ==
    CASE key.code = "Enter" /\ "SHIFT" \in key.modifiers ->
            [a EXCEPT !.input_line = InsertChar(a.input_line, "\n")]
      [] key.code = "Enter" /\ "SHIFT" \notin key.modifiers -> EnterSubmit(a)
      [] key.code = "Tab" ->
            IF a.active_tab = UtilityTab("Threads")
            THEN [a EXCEPT !.threads_focus =
                     CASE a.threads_focus = "ThreadList" -> "Conversation"
                       [] a.threads_focus = "Conversation" -> "ContextTree"
                       [] OTHER -> "ThreadList"]
            ELSE ForwardToInput(a, key, ext)
      [] key.code = "Esc" -> ClearInput(a)
      [] key.code \in {"Up", "Down", "PageUp", "PageDown", "Home", "End"} -> a
      [] key.code \in {"Left", "Right"} /\ a.active_tab = UtilityTab("Graph") -> a
      [] key.code = "Left" /\ IsAgent(a.active_tab) ->
            IF a.messages_focus = "Input"
            THEN [a EXCEPT !.input_line = MoveLeft(a.input_line)]
            ELSE a
      [] key.code = "Right" /\ IsAgent(a.active_tab) ->
            IF a.messages_focus = "Input"
            THEN [a EXCEPT !.input_line = MoveRight(a.input_line)]
            ELSE a
      [] key.code \in {"Left", "Right"}
           /\ a.active_tab = UtilityTab("Threads") /\ a.threads_focus = "ContextTree" -> a
      [] OTHER ->
            ForwardToInput([a EXCEPT !.messages_focus =
                               IF IsAgent(a.active_tab) THEN "Input" ELSE @],
                           key, ext)

\* handle_key after the tool approval mode.
AfterApproval(a, key, ext) ==
    IF key.code = "F10" THEN [a EXCEPT !.menu_active = ~a.menu_active]
    ELSE IF "ALT" \in key.modifiers /\ MenuIndex(a, key).some
    THEN [a EXCEPT !.menu_active = TRUE]
    ELSE IF a.menu_active THEN MenuMode(a, key, ext)
    ELSE IF a.input_mode = "ProviderWizard" THEN WizardMode(a, key, ext)
    ELSE IF CtrlShortcuts(a, key).done THEN CtrlShortcuts(a, key).app
    ELSE IF a.active_tab = UtilityTab("Yaml") /\ a.yaml_editor THEN YamlMode(a, key, ext)
    ELSE IF CommandPopup(a, key).done THEN CommandPopup(a, key).app
    ELSE MainMatch(CommandPopup(a, key).app, key, ext)

\* handle_key(app, key)
HandleKeyOf(a, key, ext) ==
    IF key.code = "Char" /\ key.ch = "c" /\ "CONTROL" \in key.modifiers
    THEN IF a.selection THEN Unselect(a)
         ELSE [a EXCEPT !.should_quit = TRUE]
    ELSE LET unselected == Unselect(a)
         IN  IF unselected.pending_approval.some /\ ApprovalMode(unselected, key).done
             THEN ApprovalMode(unselected, key).app
             ELSE AfterApproval(unselected, key, ext)

\* The keys pressed, and what comes from outside with each of them.
MaxText == 1

Keys ==
    {KeyOf("Enter"), [KeyOf("Enter") EXCEPT !.modifiers = {"SHIFT"}], KeyOf("Esc"),
     KeyOf("Tab"), KeyOf("F10"), KeyOf("Left"), KeyOf("Right"), CharKey("1"), CharKey("2"),
     CtrlKey("c"), CtrlKey("t"), CtrlKey("y"), CtrlKey("v"),
     [CharKey("f") EXCEPT !.modifiers = {"ALT"}]}

Clipboards == {FormFeedSlash, SlashM}

MenuActions ==
    {[kind |-> "NewTask", tab |-> UtilityTab("")],
     [kind |-> "Quit", tab |-> UtilityTab("")],
     [kind |-> "SetModel", tab |-> UtilityTab("")],
     [kind |-> "ShowAbout", tab |-> UtilityTab("")],
     [kind |-> "OpenAgentTab", tab |-> AgentTab("planner")]}

Externals(key) ==
    IF key = CtrlKey("v") THEN {External(Some(c), None, TRUE) : c \in Clipboards}
    ELSE IF key = KeyOf("Enter")
    THEN {External(None, None, TRUE)} \cup {External(None, Some(m), TRUE) : m \in MenuActions}
    ELSE IF key = KeyOf("Esc") THEN {External(None, None, y) : y \in BOOLEAN}
    ELSE {External(None, None, TRUE)}

TuiUnchanged ==
    /\ UNCHANGED <<lastCosine, lastFill, il, pm, filler>>
    /\ UNCHANGED <<kvars, pvars, tvars, svars, yvars, bvars>>

\* The event loop hands a key to handle_key until should_quit, after the
\* runner has taken the completion of the provider wizard; a key or a paste
\* adds to an input of less than MaxText characters only.
HandleKey(key, ext) ==
    /\ ~app.should_quit
    /\ ~app.pending_provider_completion.some
    /\ Len(InputText(HandleKeyOf(app, key, ext))) > Len(InputText(app)) =>
          (Len(InputText(app)) < MaxText \/ key \in {KeyOf("Enter"), KeyOf("Tab")})
    /\ app' = HandleKeyOf(app, key, ext)
    /\ TuiUnchanged

\* A handler asks for the approval of a tool call: the request, with a
\* channel of its own, becomes the pending one.
RequestApproval(tool_name) ==
    /\ ~app.should_quit
    /\ ~app.pending_approval.some
    /\ app' = [app EXCEPT !.pending_approval = Some(tool_name), !.verdicts = <<>>]
    /\ TuiUnchanged

\* The runner takes the pending task, command and provider completion and
\* reports the status of the agent.
RunnerUpdate(status) ==
    /\ ~app.should_quit
    /\ app' = [app EXCEPT !.pending_task = None, !.pending_command = None,
                          !.pending_provider_completion = None,
                          !.agent_status = status]
    /\ TuiUnchanged

\* The runner starts the provider wizard when the application starts
\* without a provider.
StartWizard ==
    /\ app = NewTuiApp
    /\ app' = [app EXCEPT !.input_mode = "ProviderWizard"]
    /\ TuiUnchanged

\* A press of the left button as the hit tests of handle_left_down see
\* it, in their order: on the label of a tab ("tab"), elsewhere in the tab
\* bar ("tab bar"), in the input area at offset columns from its left edge
\* ("input"), in the messages of the content area ("messages", block being
\* the text of the code block whose header is hit, if one is), elsewhere
\* in the content area ("content"), or anywhere else ("outside").
ClickOn(area, tab, offset, block) ==
    [area |-> area, tab |-> tab, offset |-> offset, block |-> block]

\* handle_left_down(app, col, row)
HandleLeftDown(a, click) ==
    IF click.area = "tab"
    THEN Unselect([a EXCEPT !.active_tab = click.tab])
    ELSE IF click.area = "tab bar" THEN a
    ELSE IF click.area = "input"
    THEN Unselect([a EXCEPT !.input_line = SetCursor(a.input_line, click.offset),
                            !.messages_focus = "Input"])
    ELSE IF click.area \in {"messages", "content"} /\ IsAgent(a.active_tab)
    THEN LET focused == [a EXCEPT !.messages_focus = "Messages"]
         IN  IF click.area = "content" THEN focused
             ELSE IF click.block.some
             THEN [focused EXCEPT !.input_line = InsertStr(a.input_line, click.block.v)]
             ELSE [focused EXCEPT !.selection = TRUE, !.several_lines = FALSE]
    ELSE Unselect(a)

\* handle_left_drag(app, col, row): the selection goes from the anchor to
\* the line under the pointer, which is the line of the anchor or not.
HandleLeftDrag(a, on_anchor) ==
    IF ~a.selection \/ ~IsAgent(a.active_tab) THEN a
    ELSE [a EXCEPT !.several_lines = ~on_anchor]

\* handle_left_up(app): a selection of one line was a click and is
\* cleared; a longer one goes to the clipboard and stays.
HandleLeftUp(a) ==
    IF ~a.selection THEN a
    ELSE IF ~a.several_lines THEN Unselect(a)
    ELSE a

\* handle_mouse(app, event) for the events of the left button; the wheel
\* scrolls, which changes nothing of the application that is modelled.
HandleMouseOf(a, event) ==
    CASE event.kind = "Down" -> HandleLeftDown(a, event.click)
      [] event.kind = "Drag" -> HandleLeftDrag(a, event.on_anchor)
      [] event.kind = "Up" -> HandleLeftUp(a)
      [] OTHER -> a

NoClick == ClickOn("outside", UtilityTab(""), 0, None)

\* The events of the mouse: the labels of the tab bar are those of the
\* open tabs, as draw_tab_bar lays them out.
MouseEvents(a) ==
    {[kind |-> "Down", click |-> ClickOn("tab", a.open_tabs[i], 0, None), on_anchor |-> TRUE] :
        i \in DOMAIN a.open_tabs}
    \cup {[kind |-> "Down", click |-> ClickOn(area, UtilityTab(""), 0, None), on_anchor |-> TRUE] :
             area \in {"tab bar", "content", "messages", "outside"}}
    \cup {[kind |-> "Down", click |-> ClickOn("input", UtilityTab(""), offset, None),
            on_anchor |-> TRUE] : offset \in 0..MaxText}
    \cup {[kind |-> "Down", click |-> ClickOn("messages", UtilityTab(""), 0, Some(<<"1">>)),
            on_anchor |-> TRUE]}
    \cup {[kind |-> "Drag", click |-> NoClick, on_anchor |-> b] : b \in BOOLEAN}
    \cup {[kind |-> "Up", click |-> NoClick, on_anchor |-> TRUE],
          [kind |-> "ScrollUp", click |-> NoClick, on_anchor |-> TRUE]}

\* The event loop hands an event of the mouse to handle_mouse; a click on
\* a code block adds to an input of less than MaxText characters only.
HandleMouse(event) ==
    /\ ~app.should_quit
    /\ Len(InputText(HandleMouseOf(app, event))) > Len(InputText(app)) =>
          Len(InputText(app)) < MaxText
    /\ app' = HandleMouseOf(app, event)
    /\ TuiUnchanged

\* CloudFormFiller::new(pool, max_retries) followed by fill for the tool
\* file-ops, a call that takes the mutex of the LlmPool for each of its
\* attempts and gives it back before the next one.
MaxLadder == 4

NoFill == [called |-> FALSE, max_retries |-> 0, calls |-> <<>>,
           result |-> FillFailed("", <<>>)]

\* The task that runs the fill, over the LlmPool that the handlers use:
\* where it is in fill, and what its LLM calls have returned so far.
FILLER == "filler"

NoFilling == [pc |-> "idle", max_retries |-> 0, replies |-> <<>>]

FillerUnchanged ==
    /\ UNCHANGED <<inventory, librarian, libLock, curation, handler>>
    /\ UNCHANGED <<lastCosine, il, app, pm>>
    /\ UNCHANGED <<kvars, pvars, tvars, svars, rvars, bvars>>

\* The loop of fill goes to another attempt after the LLM calls that
\* returned replies: none of them passed and max_retries is not reached.
FillGoesOn(max_retries, replies) ==
    Len(CloudFill(max_retries, "file-ops", FileOpsTag,
                  PadReplies(replies, max_retries)).calls) > Len(replies)

\* fill is called: the loop over the attempts starts, and ends at once
\* when max_retries is 0.
FillStart(max_retries) ==
    /\ filler.pc = "idle"
    /\ filler' = [NoFilling EXCEPT !.pc = IF FillGoesOn(max_retries, <<>>)
                                          THEN "lock pool" ELSE "returned",
                                   !.max_retries = max_retries]
    /\ UNCHANGED <<poolLock, lastFill>>
    /\ FillerUnchanged

\* self.pool.lock().await of the attempt.
FillPoolLock ==
    /\ filler.pc = "lock pool"
    /\ poolLock = NOBODY
    /\ poolLock' = FILLER
    /\ filler' = [filler EXCEPT !.pc = "complete"]
    /\ UNCHANGED lastFill
    /\ FillerUnchanged

\* pool.complete(..).await of the attempt returns reply; the answer is
\* checked and the guard of the pool is dropped at the end of the
\* iteration: fill returns Success, or goes to the next attempt, or
\* returns Failed after the last one.
FillAttempt(reply) ==
    LET replies == Append(filler.replies, reply)
    IN  /\ filler.pc = "complete"
        /\ poolLock' = NOBODY
        /\ filler' = [filler EXCEPT !.pc = IF FillGoesOn(filler.max_retries, replies)
                                           THEN "lock pool" ELSE "returned",
                                    !.replies = replies]
        /\ UNCHANGED lastFill
        /\ FillerUnchanged

\* fill returns its FormFillResult, after the LLM calls it has made.
FillReturn ==
    /\ filler.pc = "returned"
    /\ lastFill' = [called |-> TRUE, max_retries |-> filler.max_retries]
                    @@ CloudFill(filler.max_retries, "file-ops", FileOpsTag, filler.replies)
    /\ filler' = NoFilling
    /\ UNCHANGED poolLock
    /\ FillerUnchanged

UInit ==
    /\ lastCosine = NoCosine
    /\ lastFill = NoFill
    /\ il = [op |-> "new", pos |-> 0, taken |-> <<>>] @@ NewInputLine
    /\ app = NewTuiApp
    /\ pm = [allocations |-> NewPortManager, declares |-> 0, last |-> NoDeclare]
    /\ filler = NoFilling

\* A builder over an organism whose listeners declare no ports.
BInit ==
    /\ port_listeners = <<[name |-> "listener-a", ports |-> <<>>],
                          [name |-> "listener-b", ports |-> <<>>]>>
    /\ builder = NewBuilder

YInit == RInit /\ LInit /\ BInit /\ UInit

\* AgentPipelineBuilder::build on test_organism().
PInit ==
    /\ organism = TestOrganism
    /\ security = CompileTable(TestOrganism)
    /\ compiled = TestOrganism
    /\ inflight = {}
    /\ handled = {}
    /\ lastInject = NoInject
    /\ lastReload = [result |-> "none", event |-> ReloadEvent(TestOrganism, TestOrganism)]
    /\ failed = {}

Init == KInit /\ PInit /\ TInit /\ SInit /\ YInit

Next ==
    \/ KernelOpen /\ UNCHANGED <<pvars, xvars>>
    \/ ReplicaOpen /\ UNCHANGED <<pvars, xvars>>
    \/ KernelClose /\ UNCHANGED <<pvars, xvars>>
    \/ \E org \in OrgNames, profile \in {"admin"}, walFails \in BOOLEAN :
          KernelInitializeRoot(org, profile, walFails) /\ UNCHANGED <<pvars, xvars>>
    \/ \E from \in Senders, to \in ListenerNames, thread_id \in 1..uuidCtr,
          message_id \in MessageIds, fault \in Faults :
          KernelDispatchMessage(from, to, thread_id, message_id, fault) /\ UNCHANGED <<pvars, xvars>>
    \/ \E thread_id \in 1..uuidCtr, fault \in Faults :
          KernelPruneThread(thread_id, fault) /\ UNCHANGED <<pvars, xvars>>
    \/ \E from \in Senders, to \in ListenerNames, thread_id \in 1..uuidCtr,
          message_id \in MessageIds :
          DispatchCrashAfterWal(from, to, thread_id, message_id) /\ UNCHANGED <<pvars, xvars>>
    \/ \E thread_id \in 1..uuidCtr : PruneCrashAfterWal(thread_id) /\ UNCHANGED <<pvars, xvars>>
    \/ \E from \in Senders, to \in ListenerNames, thread_id \in 1..uuidCtr,
          message_id \in MessageIds, k \in 0..2, torn \in BOOLEAN :
          DispatchCrashMidBatch(from, to, thread_id, message_id, k, torn) /\ UNCHANGED <<pvars, xvars>>
    \/ \E thread_id \in 1..uuidCtr, k \in 0..2, torn \in BOOLEAN :
          PruneCrashMidBatch(thread_id, k, torn) /\ UNCHANGED <<pvars, xvars>>

Spec == Init /\ [][Next]_vars

\* The kernel's interface alone, every call completing without an I/O
\* failure, over sessions that end by dropping the kernel.
CallsNext ==
    \/ KernelOpen /\ UNCHANGED <<pvars, xvars>>
    \/ KernelClose /\ UNCHANGED <<pvars, xvars>>
    \/ \E org \in OrgNames, profile \in {"admin"} :
          KernelInitializeRoot(org, profile, FALSE) /\ UNCHANGED <<pvars, xvars>>
    \/ \E from \in Senders, to \in ListenerNames, thread_id \in 1..uuidCtr,
          message_id \in MessageIds :
          KernelDispatchMessage(from, to, thread_id, message_id, "none") /\ UNCHANGED <<pvars, xvars>>
    \/ \E thread_id \in 1..uuidCtr :
          KernelPruneThread(thread_id, "none") /\ UNCHANGED <<pvars, xvars>>

SpecCalls == Init /\ [][CallsNext]_vars

TNext ==
    \/ \E org \in OrgNames : TaskInitializeRoot(org, "admin")
    \/ \E t \in Tasks, op \in {"dispatch", "prune"}, from \in Senders,
          to \in ListenerNames, thread_id \in 1..uuidCtr, message_id \in MessageIds :
          TaskLock(t, op, IF op = "dispatch" THEN from ELSE "",
                   IF op = "dispatch" THEN to ELSE "", thread_id,
                   IF op = "dispatch" THEN message_id ELSE "")
    \/ \E t \in Tasks : TaskPeekNone(t)
    \/ \E t \in Tasks : TaskAppend(t)
    \/ \E t \in Tasks : TaskApply(t)
    \/ \E t \in Tasks : TaskUnlock(t)

SpecTasks == Init /\ [][TNext]_vars

\* An index created with any of the thresholds, then registrations,
\* removals and searches.
SearchInit ==
    /\ KInit
    /\ PInit
    /\ TInit
    /\ \E th \in Thresholds : index = NewIndex(th)
    /\ lastSearch = NoSearch
    /\ YInit

SearchNext ==
    \/ \E name \in ToolNames, emb \in Embeddings : IndexRegister(name, emb)
    \/ \E name \in ToolNames : IndexRemove(name)
    \/ \E query \in Queries, allowed \in SUBSET ToolNames :
          IndexSearchFiltered(query, allowed)
    \/ \E listeners \in RoutingListeners : IndexRegisterTools(listeners)

SpecSearch == SearchInit /\ [][SearchNext]_vars

\* A router built on routing_organism() with any of the thresholds and any
\* of the form-fill strategies, then registrations of metadata and routes.
FormFillers ==
    {Cloud(n) : n \in 0..MaxRetries}
    \cup {Local(s, FALSE, 0) : s \in {{}, {"file-ops"}}}
    \cup {Local(s, TRUE, 1) : s \in {{}, {"file-ops"}}}

RouterInit ==
    /\ KInit
    /\ PInit
    /\ TInit
    /\ \E th \in Thresholds, ls \in RoutingListeners :
          index = RegisterTools(NewIndex(th), ls)
    /\ lastSearch = NoSearch
    /\ tool_metadata = EmptyFn
    /\ form_filler \in FormFillers
    /\ lastRoute = NoRoute
    /\ engineLock = NOBODY
    /\ LInit
    /\ BInit
    /\ UInit

RouterNext ==
    \/ \E name \in {"file-ops", "shell"} : RegisterMetadata(name)
    \/ TakeDecision
    \/ \E text \in RouteTexts, allowed_tools \in SUBSET ToolNames :
          Route(text, allowed_tools)
    \/ \E engine \in EngineResults : RouteEngine(engine)
    \/ EngineLock
    \/ EngineUnlock
    \/ RoutePoolLock
    \/ \E reply \in LlmReplies : RouteComplete(reply)

SpecRouter == RouterInit /\ [][RouterNext]_vars

\* Two handler tasks of an LlmHandler, with or without a Librarian, over a
\* thread whose three segments start in any statuses.
HandlerInit ==
    /\ KInit
    /\ PInit
    /\ TInit
    /\ SInit
    /\ RInit
    /\ \E statuses \in [1..3 -> {"Active", "Shelved"}] :
          inventory = SampleInventory(statuses)
    /\ librarian \in BOOLEAN
    /\ libLock = NOBODY
    /\ poolLock = NOBODY
    /\ curation = NoCuration
    /\ handler = [h \in Handlers |-> Resting]
    /\ BInit
    /\ UInit

HandlerNext ==
    \/ \E h \in Handlers, xml \in LlmRequests : HandleStart(h, xml)
    \/ \E h \in Handlers : LibrarianLock(h)
    \/ \E h \in Handlers : CurateSnapshot(h)
    \/ \E h \in Handlers : CuratePoolLock(h)
    \/ \E h \in Handlers, http \in [1..MaxRequests -> HttpOutcomes],
          answer \in CurationAnswers :
          CurateComplete(h, http, answer)
    \/ \E h \in Handlers : CurateApply(h)
    \/ \E h \in Handlers : CurateReturn(h)
    \/ \E h \in Handlers : PoolLock(h)
    \/ \E h \in Handlers, http \in [1..MaxRequests -> HttpOutcomes] : HandleComplete(h, http)
    \/ \E h \in Handlers : HandleReturn(h)

SpecHandler == HandlerInit /\ [][HandlerNext]_vars

\* The two handler tasks and a form-fill task over one LlmPool.
FillReplies == {LlmErr(RateLimitedText), LlmText(DocPadded)}

\* A request that parses and one that does not; a curation answer that
\* pages two segments out; the answers of the API server to a call.
PoolRequests == {[max_tokens |-> "2500", messages |-> 1],
                 [max_tokens |-> "abc", messages |-> 1]}

PoolAnswer == CurationAnswer(<<>>, <<SegmentIds[1], SegmentIds[2]>>)

\* The API server answers every request of one call alike.
PoolHttp == {[k \in 1..MaxRequests |-> outcome] : outcome \in HttpOutcomes}

PoolInit ==
    /\ HandlerInit
    /\ inventory = SampleInventory([i \in 1..3 |-> "Active"])

PoolNext ==
    \/ \E h \in Handlers, xml \in PoolRequests : HandleStart(h, xml)
    \/ \E h \in Handlers : LibrarianLock(h)
    \/ \E h \in Handlers : CurateSnapshot(h)
    \/ \E h \in Handlers : CuratePoolLock(h)
    \/ \E h \in Handlers, http \in PoolHttp : CurateComplete(h, http, PoolAnswer)
    \/ \E h \in Handlers : CurateApply(h)
    \/ \E h \in Handlers : CurateReturn(h)
    \/ \E h \in Handlers : PoolLock(h)
    \/ \E h \in Handlers, http \in PoolHttp : HandleComplete(h, http)
    \/ \E h \in Handlers : HandleReturn(h)
    \/ \E max_retries \in 0..MaxRetries : FillStart(max_retries)
    \/ FillPoolLock
    \/ \E reply \in FillReplies : FillAttempt(reply)
    \/ FillReturn

SpecPool == PoolInit /\ [][PoolNext]_vars

\* The mutex of the pool is a tokio::sync::Mutex, which grants the lock in
\* the order of the requests: a task that asks for it gets it after the
\* tasks that asked before (strong fairness of the lock steps), and a call
\* of the pool that is in flight returns (weak fairness of its return).
PoolFairness ==
    /\ \A h \in Handlers : SF_vars(PoolLock(h) \/ CuratePoolLock(h))
    /\ \A h \in Handlers :
          WF_vars(\E http \in PoolHttp :
                     HandleComplete(h, http) \/ CurateComplete(h, http, PoolAnswer))
    /\ SF_vars(FillPoolLock)
    /\ WF_vars(\E reply \in FillReplies : FillAttempt(reply))

FairSpecPool == SpecPool /\ PoolFairness

\* A pipeline built from any of the organisms, with or without the port
\* manager.
MaxSessionCalls == 2

\* The data directory is new and no pipeline has been made from the
\* organism yet.
NoPipeline ==
    /\ wal = <<>>
    /\ threads = EmptyFn
    /\ root = NONE
    /\ contexts = {}
    /\ journal = EmptyFn
    /\ up = FALSE
    /\ uuidCtr = 0
    /\ calls = 0
    /\ faults = 0
    /\ lastOp = NoOp
    /\ expected = EmptyStores
    /\ how = "none"
    /\ born = EmptyFn
    /\ replica = NoReplica
    /\ organism = TestOrganism
    /\ security = {}
    /\ compiled = NoOrganism
    /\ inflight = {}
    /\ handled = {}
    /\ lastInject = NoInject
    /\ lastReload = [result |-> "none", event |-> ReloadEvent(TestOrganism, TestOrganism)]
    /\ failed = {}

BuilderInit ==
    /\ NoPipeline
    /\ TInit
    /\ SInit
    /\ RInit
    /\ LInit
    /\ \E q \in PortCounts : port_listeners \in PortOrganismsOf(q[1], q[2], q[3], q[4])
    /\ builder = NewBuilder
    /\ UInit

\* Sessions as in kernel_state_persists: a pipeline is built, the root is
\* initialized, the pipeline is dropped and the next one built on the same
\* data directory.
BuilderNext ==
    \/ \E order \in ListenerOrders : WithPortManager(order)
    \/ \E opened \in BOOLEAN : Build(opened)
    \/ \E opened \in BOOLEAN : PipelineNew(opened)
    \/ BuilderNew
    \/ calls < MaxSessionCalls /\ PipelineInitializeRoot("test-org", "admin", FALSE)
    \/ calls < MaxSessionCalls /\ KernelClose /\ UNCHANGED <<pvars, xvars>>

SpecBuilder == BuilderInit /\ [][BuilderNext]_vars

\* Calls of cosine_similarity on vectors of up to MaxDim integers between
\* -MaxCoord and MaxCoord.
MaxDim == 2

MaxCoord == 2

CosineVectors == UNION {[1..n -> (-MaxCoord)..MaxCoord] : n \in 0..MaxDim}

CosineNext == \E a \in CosineVectors, b \in CosineVectors : Cosine(a, b)

SpecCosine == Init /\ [][CosineNext]_vars

\* Declarations on a PortManager of its own.
\* A cloud form filler of any max_retries, filling against LLM replies that
\* fail in each of the three ways or succeed.
LadderReplies == {LlmErr(RateLimitedText), LlmNoText, LlmText(DocValid), LlmText(DocShell),
                  LlmText(DocPadded)}

LadderNext ==
    \/ \E max_retries \in 0..MaxLadder : FillStart(max_retries)
    \/ FillPoolLock
    \/ \E reply \in LadderReplies : FillAttempt(reply)
    \/ FillReturn

SpecLadder == Init /\ [][LadderNext]_vars

\* The terminal application: keys, approval requests, and the runner.
AgentStatuses == {"Idle", "Thinking"}

\* The keys pressed in the runs: the application runs without an
\* organism file, and its YAML tab stays closed.
PressedKeys == Keys \ {CtrlKey("y")}

TuiNext ==
    \/ \E key \in PressedKeys : \E ext \in Externals(key) : HandleKey(key, ext)
    \/ \E tool_name \in {"file-write"} : RequestApproval(tool_name)
    \/ \E status \in AgentStatuses : RunnerUpdate(status)
    \/ StartWizard
    \/ \E event \in MouseEvents(app) : HandleMouse(event)

SpecTui == Init /\ [][TuiNext]_vars

\* Any operation on the InputLine.
InputLineNext ==
    \/ IlClear
    \/ \E text \in InputStrs : IlSetContent(text)
    \/ IlTake
    \/ \E ch \in InputChars : IlInsertChar(ch)
    \/ \E text \in InputStrs : IlInsertStr(text)
    \/ IlDeleteBack
    \/ IlDeleteForward
    \/ IlDeleteWordBack
    \/ IlMoveLeft
    \/ IlMoveRight
    \/ IlMoveHome
    \/ IlMoveEnd
    \/ \E pos \in 0..(MaxInput + 1) : IlSetCursor(pos)

SpecInputLine == Init /\ [][InputLineNext]_vars

DeclareNext == \E listener \in PortListeners, decl \in PortDeclarations : PmDeclare(listener, decl)

SpecPorts == Init /\ [][DeclareNext]_vars

PNext ==
    \/ \E to \in ListenerNames, profile \in ProfileNames, target \in ListenerNames :
          InjectChecked(to, profile, target)
    \/ \E to \in ListenerNames : InjectRaw(to)
    \/ \E env \in inflight, outcome \in {"ok", "err"} : HandlerStep(env, outcome)
    \/ \E new \in ReloadOrganisms : Reload(new)
    \/ PipelineInitializeRoot("test-org", "admin", FALSE)

SpecPipeline == Init /\ [][PNext]_vars

\* ------------------------------------------------------- kernel properties

\* A dispatch_message call has just returned.
DispatchReturned == lastOp'.seq # lastOp.seq /\ lastOp'.op = "dispatch"

\* C1: after dispatch_message returns Ok(U) the thread table maps U to the
\* chain of thread_id extended by `to`, a context exists for thread_id and
\* the journal holds message_id as Dispatched; after it returns an error
\* none of the three stores has changed.
C1_DispatchAllOrNothing ==
    [][DispatchReturned =>
        /\ lastOp'.result = "ok" =>
              /\ lastOp'.uuid \in DOMAIN threads'
              /\ threads'[lastOp'.uuid] = Append(lastOp'.chain, lastOp'.to)
              /\ ContextExists(contexts', lastOp'.thread_id)
              /\ lastOp'.message_id \in DOMAIN journal'
              /\ journal'[lastOp'.message_id].status = "Dispatched"
        /\ lastOp'.result = "err" => UNCHANGED <<threads, root, contexts, journal>>
      ]_vars

\* prune_thread(U) has just returned Some for a thread U that a
\* dispatch_message call of this run created.
PrunedDispatched ==
    /\ lastOp.op = "prune"
    /\ lastOp.result = "some"
    /\ lastOp.thread_id \in DOMAIN born

\* C2: after prune_thread(U) returns Some for a thread U created by
\* dispatch_message, U is not in the thread table, the context that dispatch
\* allocated is released, and the journal entry of the message whose
\* dispatch created U is Delivered (find_undelivered does not return it).
C2_PruneAllThree ==
    PrunedDispatched =>
        LET U == lastOp.thread_id
            d == born[U]
        IN  /\ U \notin DOMAIN threads
            /\ ~ContextExists(contexts, d.thread_id)
            /\ d.message_id \in DOMAIN journal
            /\ journal[d.message_id].status = "Delivered"
            /\ d.message_id \notin FindUndelivered(journal)

\* The kernel has been reopened and nothing has been done since.
Reopened(reason) == up /\ how = reason /\ lastOp.op = "open"

\* C3: after a crash between the WAL append of a dispatch or prune batch
\* and its in-memory mutators (and no other failure), the next open yields
\* the stores of a run in which the operation completed.
C3_CrashAfterWalRecovers ==
    (Reopened("after_wal") /\ faults = 1) => KStores = expected

\* C4: after a crash while a batch was being written (a proper prefix of
\* its records reached the file, and no other failure), the next open shows
\* the stores as they were before the interrupted operation.
C4_PartialBatchInvisible ==
    (Reopened("mid_batch") /\ faults = 1) => KStores = expected

\* C9: in a run without I/O failures, closing and reopening the kernel
\* yields the stores as they were before the close: the same UUIDs mapped
\* to the same chains, the same contexts, the same journal entries.
C9_ReopenIsIdentity ==
    (Reopened("close") /\ faults = 0) => KStores = expected

\* C10: two kernels that replay the same WAL from empty stores end with
\* identical thread tables (UUIDs included), contexts and journals.
C10_ReplayDeterministic ==
    (up /\ replica.open) => replica.stores = KStores

\* The stores and the UUID count of the running kernel, as a replaying
\* kernel sees them.
KNow == [threads |-> threads, root |-> root, contexts |-> contexts,
         journal |-> journal, ctr |-> uuidCtr]

\* C11: applying a record the kernel wrote twice to the stores leaves what
\* applying it once leaves; and a kernel that is opened, dropped and opened
\* again with nothing done in between holds the same threads, contexts and
\* journal entries as before.
C11_ApplyIsIdempotent ==
    /\ up => \A i \in 1..Len(wal) :
            WithoutCtr(ApplyWalEntry(ApplyWalEntry(KNow, wal[i]), wal[i]))
                = WithoutCtr(ApplyWalEntry(KNow, wal[i]))
    /\ (Reopened("reclose") /\ faults = 0) => KStores = expected

\* C12: a dispatch_message call whose thread_id is not in the thread table,
\* or whose message_id is already in the journal, returns an error and
\* leaves the WAL and the three stores unchanged.
C12_DispatchChecksPreconditions ==
    [][(DispatchReturned
          /\ (lastOp'.thread_id \notin DOMAIN threads
                \/ lastOp'.message_id \in DOMAIN journal)) =>
          /\ lastOp'.result = "err"
          /\ UNCHANGED <<wal, threads, root, contexts, journal>>
      ]_vars

\* A prune_thread call has just returned.
PruneReturned == lastOp'.seq # lastOp.seq /\ lastOp'.op = "prune"

\* C13: prune_thread(U) for a U that is not in the thread table returns
\* None, appends nothing to the WAL and leaves the three stores unchanged.
C13_PruneUnknownIsNoOp ==
    [][(PruneReturned /\ lastOp'.thread_id \notin DOMAIN threads) =>
          /\ lastOp'.result = "none"
          /\ UNCHANGED <<wal, threads, root, contexts, journal>>
      ]_vars

\* prune_thread(U) has just returned None for a U that dispatch_message
\* returned and an earlier prune_thread(U) removed.
C13_Witness ==
    /\ lastOp.op = "prune"
    /\ lastOp.result = "none"
    /\ lastOp.thread_id \in DOMAIN born
    /\ lastOp.thread_id \notin DOMAIN threads
    /\ Len(wal) = 7

\* C14: a kernel call that returns an error without having added a record
\* to the WAL (its append failed) has run no mutator: the thread table, the
\* context store and the journal are as before the call.
C14_WalFailureMutatesNothing ==
    [][(lastOp'.seq # lastOp.seq /\ lastOp'.result = "err" /\ wal' = wal) =>
          UNCHANGED <<threads, root, contexts, journal>>
      ]_vars

\* The chain of u without its last segment is the chain of some thread.
ParentPresent(u) ==
    \E p \in DOMAIN threads : threads[p] = SubSeq(threads[u], 1, Len(threads[u]) - 1)

\* C15: every thread of the table other than
\* the root has its parent chain in the table, and the root's chain has one
\* segment.
C15_ParentPresent ==
    up =>
        \A u \in DOMAIN threads :
            IF u = root THEN Len(threads[u]) = 1 ELSE ParentPresent(u)

\* C16: a journal entry that is Delivered or Failed is not changed by any
\* later kernel call, and no entry disappears.
C16_StatusOnlyAdvances ==
    [][(up /\ up') =>
          \A m \in DOMAIN journal :
              /\ m \in DOMAIN journal'
              /\ journal[m].status # "Dispatched" => journal'[m] = journal[m]
      ]_vars

\* ---------------------------------------------------------- task properties

\* The records of a batch of three stand one after the other: the second
\* and the third record of a dispatch or of a prune follow the first of
\* the same call, and nothing but them follows a first or a second record.
\* The record of an initialize_root is a call of its own.
Contiguous(w) ==
    \A i \in 1..Len(w) :
        LET e == w[i]
            second == IF e.type \in {"ThreadExtend", "ContextAllocate"}
                      THEN "ContextAllocate" ELSE "ContextRelease"
            third == IF e.type \in {"ThreadExtend", "ContextAllocate"}
                     THEN "JournalDispatched" ELSE "JournalDelivered"
        IN  /\ e.type = "ContextAllocate" =>
                  /\ i > 1
                  /\ w[i - 1].type = "ThreadExtend"
                  /\ e.payload = <<w[i - 1].payload[1]>>
            /\ e.type = "JournalDispatched" =>
                  /\ i > 2
                  /\ w[i - 1].type = "ContextAllocate"
                  /\ w[i - 2].type = "ThreadExtend"
                  /\ e.payload[2] = w[i - 2].payload[1]
                  /\ e.payload[4] = w[i - 2].payload[2]
            /\ e.type = "ContextRelease" =>
                  /\ i > 1
                  /\ w[i - 1].type = "ThreadPrune"
                  /\ e.payload = w[i - 1].payload
            /\ e.type = "JournalDelivered" =>
                  /\ i > 2
                  /\ w[i - 1].type = "ContextRelease"
                  /\ w[i - 2].type = "ThreadPrune"
                  /\ e.payload = w[i - 2].payload
            /\ (e.type \in {"ThreadExtend", "ThreadPrune"} /\ i < Len(w)) =>
                  w[i + 1].type = second
            /\ (e.type \in {"ThreadExtend", "ThreadPrune"} /\ i + 1 < Len(w)) =>
                  w[i + 2].type = third
            /\ (e.type \in {"ContextAllocate", "ContextRelease"} /\ i < Len(w)) =>
                  w[i + 1].type = third

\* The message ids of the JournalDispatched records, in WAL order.
WalDispatchOrder(w) ==
    LET sel == SelectSeq(w, LAMBDA e : e.type = "JournalDispatched")
    IN  [i \in 1..Len(sel) |-> sel[i].payload[1]]

\* Task t has appended records whose mutators have not run yet.
Pending(t) == task[t].pc = "held" /\ task[t].written > 0 /\ ~task[t].applied

\* C17: whatever the interleaving of the tasks, the three records of each
\* call are contiguous in the WAL, no task appends while another task's
\* appended call has not run its mutators, and the journal records the
\* messages in the order of their records in the WAL.
C17_KernelCallsSerialized ==
    /\ Contiguous(wal)
    /\ \A t1, t2 \in Tasks : (Pending(t1) /\ Pending(t2)) => t1 = t2
    /\ \A t1, t2 \in Tasks :
          (task[t1].pc = "held" /\ task[t2].pc = "held") => t1 = t2
    /\ Len(jlog) <= Len(WalDispatchOrder(wal))
    /\ jlog = SubSeq(WalDispatchOrder(wal), 1, Len(jlog))

\* Two tasks have each completed a dispatch, of different messages, one
\* after the other.
C17_Witness ==
    /\ \A t \in Tasks : task[t].pc = "idle" /\ task[t].ops = 1
    /\ Len(jlog) = 2
    /\ jlog[1] # jlog[2]
    /\ Len(wal) = 7
    /\ lock = NOBODY

\* ----------------------------------------------------- pipeline properties

\* An inject_checked call has just returned.
InjectCheckedReturned ==
    lastInject'.tick # lastInject.tick /\ lastInject'.via = "checked"

\* C5: an inject_checked call whose can_reach(profile, target) is false
\* returns an error, changes no kernel store and no WAL record, and its
\* envelope neither enters the inner pipeline nor reaches a handler.
C5_DeniedInjectHasNoEffect ==
    /\ [][(InjectCheckedReturned
            /\ ~CanReach(security, lastInject'.profile, lastInject'.target)) =>
            /\ lastInject'.result = "denied"
            /\ UNCHANGED <<wal, threads, root, contexts, journal>>
            /\ UNCHANGED <<inflight, handled>>
         ]_vars
    /\ [](\A env \in inflight \cup handled : env.gate # "failed")

\* A denied inject_checked call on a kernel whose root is initialized.
C5_Witness ==
    /\ lastInject.via = "checked"
    /\ lastInject.result = "denied"
    /\ root # NONE
    /\ wal # <<>>

\* C6: the gate is enforced on every inject: every envelope that has
\* reached the handler of a listener, through whichever public inject
\* operation of the AgentPipeline it came, had a can_reach check that
\* returned true.
C6_EveryHandledWasGated ==
    \A env \in handled : env.gate = "passed"

\* C7: can_reach(P, L) is true exactly when L is in P's allow-list (false
\* for an empty allow-list, an unknown profile, an unlisted listener), and
\* inject_checked rejects exactly the calls whose target is not in the
\* profile's allow-list: with public = [echo] and admin = [echo, sink] an
\* inject to sink is rejected under public and proceeds under admin.
C7_CanReachIsAllowList ==
    /\ \A P \in ProfileNames \cup {"ghost"}, L \in ListenerNames :
          CanReach(security, P, L) <=> Listed(P, L)
    /\ lastInject.via = "checked" =>
          (lastInject.result = "denied" <=> ~lastInject.listed)
    /\ (lastInject.via = "checked" /\ compiled = TestOrganism
            /\ lastInject.target = "sink") =>
          (lastInject.result = IF lastInject.profile = "admin" THEN "ok" ELSE "denied")

\* Under test_organism() an inject to sink has just proceeded under admin.
C7_Witness ==
    /\ compiled = TestOrganism
    /\ lastInject.via = "checked"
    /\ lastInject.profile = "admin"
    /\ lastInject.target = "sink"
    /\ lastInject.result = "ok"

\* Under a reloaded organism whose public allow-list is empty, an inject
\* under public has just been rejected.
C7_WitnessEmptyAllowList ==
    /\ compiled.name = "closed"
    /\ lastInject.via = "checked"
    /\ lastInject.profile = "public"
    /\ lastInject.result = "denied"

\* C8: after reload returns, with Ok or with Err, can_reach(P, L) equals
\* (L is in the allow-list of P in the organism the pipeline reports).
C8_TableMatchesOrganism ==
    \A P \in ProfileNames, L \in ListenerNames :
        CanReach(security, P, L) <=>
            (P \in DOMAIN organism.profiles /\ L \in organism.profiles[P])

\* C18: after inject_checked returns Ok on a kernel whose root exists, the
\* call has added a batch to the WAL, the journal holds a Dispatched entry
\* for the target that it did not hold before, and the thread table holds a
\* new UUID whose chain ends in the target.
C18_InjectRecordedInKernel ==
    [][(InjectCheckedReturned /\ lastInject'.result = "ok" /\ root # NONE) =>
          /\ Len(wal') = Len(wal) + 3
          /\ \E u \in DOMAIN threads' \ DOMAIN threads :
                threads'[u][Len(threads'[u])] = lastInject'.target
          /\ \E m \in DOMAIN journal' :
                /\ journal'[m].status = "Dispatched"
                /\ journal'[m].to = lastInject'.target
                /\ m \in DOMAIN journal => journal[m] # journal'[m]
      ]_vars

\* C19: when the handler of a listener has returned an error, the journal
\* holds the message it was handling, addressed to that listener, as Failed
\* (and find_undelivered does not return it).
C19_HandlerErrorMarksFailed ==
    \A l \in failed :
        \E m \in DOMAIN journal :
            /\ journal[m].to = l
            /\ journal[m].status = "Failed"
            /\ m \notin FindUndelivered(journal)

\* ---------------------------------------------------------- index properties

\* The registered entries whose name is in A and whose score against q is
\* at least the threshold.
Candidates(q, A) ==
    {i \in 1..Len(index.entries) :
        /\ index.entries[i].name \in A
        /\ ScoreLeq(index.threshold, CosineSimilarity(q, index.entries[i].emb))}

\* C20: search_filtered(q, allowed) returns None when allowed is empty;
\* otherwise what it returns, if anything, is a registered entry whose name
\* is in allowed, whose score is at least the threshold, and which no
\* other such entry outscores.
C20_SearchFilteredRespectsAllowList ==
    lastSearch.called =>
        LET r == lastSearch.result
            q == lastSearch.query
            A == lastSearch.allowed
        IN  /\ A = {} => ~r.some
            /\ r.some =>
                  /\ r.name \in A
                  /\ \E i \in Candidates(q, A) :
                        /\ index.entries[i].name = r.name
                        /\ r.score = CosineSimilarity(q, index.entries[i].emb)
                  /\ \A j \in Candidates(q, A) :
                        ScoreLeq(CosineSimilarity(q, index.entries[j].emb), r.score)

\* A search returned an allowed entry although a registered entry outside
\* the allow-list scores strictly higher.
C20_Witness ==
    /\ lastSearch.called
    /\ lastSearch.result.some
    /\ \E i \in 1..Len(index.entries) :
          /\ index.entries[i].name \notin lastSearch.allowed
          /\ ScoreGreater(CosineSimilarity(lastSearch.query, index.entries[i].emb),
                          lastSearch.result.score)

\* A search with an empty allow-list on an index that holds an entry
\* scoring above the threshold.
C20_WitnessEmptyAllowList ==
    /\ lastSearch.called
    /\ lastSearch.allowed = {}
    /\ Candidates(lastSearch.query, ToolNames) # {}

\* --------------------------------------------------------- router properties
\* C21: route(text, allowed_tools) returns Response when allowed_tools is
\* empty; for any allowed_tools it calls the form filler only for tools in
\* allowed_tools, a ToolResult names a tool in allowed_tools, and the note
\* of a ToolFailed names no tool outside allowed_tools.
C21_RouteRespectsAllowList ==
    lastRoute.called =>
        /\ lastRoute.allowed = {} =>
              lastRoute.decision = Response /\ lastRoute.fills = <<>>
        /\ \A i \in DOMAIN lastRoute.fills :
              lastRoute.fills[i].tool_name \in lastRoute.allowed
        /\ lastRoute.decision.kind = "ToolResult" =>
              lastRoute.decision.tool_name \in lastRoute.allowed
        /\ lastRoute.decision.kind = "ToolFailed" =>
              \A t \in ToolNames \ lastRoute.allowed :
                 ~Contains(lastRoute.decision.note, <<t>>)

\* A route returned a ToolResult or a ToolFailed for an allowed tool
\* although a tool outside allowed_tools, with metadata, matches the text
\* best.
C21_Witness ==
    /\ lastRoute.called
    /\ lastRoute.decision.kind \in {"ToolResult", "ToolFailed"}
    /\ BestMatch(index, Embed(lastRoute.text), {}).name \notin lastRoute.allowed
    /\ BestMatch(index, Embed(lastRoute.text), {}).name \in DOMAIN tool_metadata

\* A route with an empty allow-list of a text that matches a tool with
\* metadata.
C21_WitnessEmptyAllowList ==
    /\ lastRoute.called
    /\ lastRoute.allowed = {}
    /\ BestMatch(index, Embed(lastRoute.text), {}).some
    /\ BestMatch(index, Embed(lastRoute.text), {}).name \in DOMAIN tool_metadata

\* C22: the note of a ToolFailed is user-facing only: it does not contain
\* the form filler's internal error text, and it is the same whatever the
\* internal errors were: the same route of the same text, failing on other
\* answers of the LLM or of the local engine, gives the same note.
C22_NoteHidesInternalError ==
    (lastRoute.called /\ lastRoute.decision.kind = "ToolFailed") =>
        LET last_error == lastRoute.fills[1].result.last_error IN
        /\ last_error # <<>> => ~Contains(lastRoute.decision.note, last_error)
        /\ \A engine \in EngineAnswers, replies \in LlmAnswers :
              LET other == RouteOutcome(lastRoute.text, lastRoute.allowed, engine, replies)
              IN  other.decision.kind = "ToolFailed" =>
                     other.decision.note = lastRoute.decision.note

\* C23: route returns one of Response, ToolResult and ToolFailed, and calls
\* the form filler at most once.  When no allowed entry scores at or above
\* the threshold it returns Response and the form filler is not called;
\* when the form filler returns Success it returns ToolResult with the
\* matched tool's name and the filled XML; when the form filler returns
\* Failed it returns ToolFailed with a note that names the matched tool.
C23_RouteOutcomes ==
    lastRoute.called =>
        LET d == lastRoute.decision
            fills == lastRoute.fills
        IN  /\ d.kind \in {"Response", "ToolResult", "ToolFailed"}
            /\ Len(fills) <= 1
            /\ Candidates(Embed(lastRoute.text), lastRoute.allowed) = {} =>
                  d = Response /\ fills = <<>>
            /\ d.kind # "Response" => Len(fills) = 1
            /\ \A i \in DOMAIN fills :
                  /\ lastRoute.found.some
                  /\ fills[i].tool_name = lastRoute.found.name
                  /\ fills[i].result.kind = "Success" =>
                        d = ToolResult(lastRoute.found.name, fills[i].result.filled_xml)
                  /\ fills[i].result.kind = "Failed" =>
                        /\ d.kind = "ToolFailed"
                        /\ Contains(d.note, <<lastRoute.found.name>>)

\* A route whose form fill succeeded on a retry and which returned ToolResult.
C23_Witness ==
    /\ lastRoute.called
    /\ lastRoute.decision.kind = "ToolResult"
    /\ Len(lastRoute.fills[1].calls) = 2

\* A route whose form fill failed after its LLM calls and which returned
\* ToolFailed.
C23_WitnessFailed ==
    /\ lastRoute.called
    /\ lastRoute.decision.kind = "ToolFailed"
    /\ Len(lastRoute.fills[1].calls) = MaxRetries

\* A route that returned Response because only tools outside allowed_tools
\* score at or above the threshold.
C23_WitnessNoCandidate ==
    /\ lastRoute.called
    /\ lastRoute.allowed # {}
    /\ Candidates(Embed(lastRoute.text), lastRoute.allowed) = {}
    /\ Candidates(Embed(lastRoute.text), DOMAIN tool_metadata) # {}

\* A document parses as XML when it is one element, with only white space
\* around it; an element is an empty-element tag or a start-tag, text and
\* elements, and the end-tag of the same name.  XmlParse reads s from the
\* left with the names of the open elements on a stack, and gives the name
\* of the root element.
XmlName(n) == n # <<>> /\ \A i \in 1..Len(n) : n[i] \notin {"<", ">", "/", " ", "\n"}

NotXml == [ok |-> FALSE, root |-> <<>>]

RECURSIVE XmlParse(_, _, _)
XmlParse(s, stack, name0) ==
    IF s = <<>> THEN [ok |-> stack = <<>> /\ name0 # <<>>, root |-> name0]
    ELSE IF Head(s) = "<"
    THEN LET j == Find(s, {">"})
             inner == SubSeq(s, 2, j - 1)
             rest == SubSeq(s, j + 1, Len(s))
             top == stack = <<>>
         IN  IF j = 0 \/ inner = <<>> THEN NotXml
             ELSE IF Head(inner) = "/"
             THEN IF ~top /\ Tail(inner) = stack[Len(stack)]
                  THEN XmlParse(rest, SubSeq(stack, 1, Len(stack) - 1), name0)
                  ELSE NotXml
             ELSE IF inner[Len(inner)] = "/"
             THEN LET name == SubSeq(inner, 1, Len(inner) - 1)
                  IN  IF ~XmlName(name) \/ (top /\ name0 # <<>>) THEN NotXml
                      ELSE XmlParse(rest, stack, IF top THEN name ELSE name0)
             ELSE IF ~XmlName(inner) \/ (top /\ name0 # <<>>) THEN NotXml
             ELSE XmlParse(rest, Append(stack, inner), IF top THEN inner ELSE name0)
    ELSE IF stack = <<>> /\ Head(s) \notin {" ", "\n", "\t", "\r"} THEN NotXml
    ELSE XmlParse(Tail(s), stack, name0)

\* C24: the filled_xml of every Success of the cloud or of the local form
\* filler parses as XML and its root element has the name payload_tag.
C24_SuccessIsValidXml ==
    \A i \in DOMAIN lastRoute.fills :
        lastRoute.fills[i].result.kind = "Success" =>
            LET parsed == XmlParse(lastRoute.fills[i].result.filled_xml, <<>>, <<>>)
            IN  parsed.ok /\ parsed.root = lastRoute.fills[i].payload_tag

\* C25: CloudFormFiller::fill with max_retries = N makes at most N LLM
\* calls, one per attempt.  An attempt whose call returned an API error or
\* a response without text has failed.  No call is made after an attempt
\* that passed: fill returns Success exactly when its last attempt
\* passed, and otherwise it has made N calls and returns Failed with the
\* error of the N-th attempt (the empty text when N is 0).
C25_CloudFillBounded ==
    \A i \in DOMAIN lastRoute.fills :
        form_filler.strategy = "cloud" =>
            LET f == lastRoute.fills[i]
                N == form_filler.max_retries
                made == Len(f.calls)
                passed(k) == f.calls[k].verdict.ok
            IN  /\ made <= N
                /\ Len(f.replies) = made
                /\ \A k \in 1..made : f.replies[k].kind # "text" => ~passed(k)
                /\ \A k \in 1..(made - 1) : ~passed(k)
                /\ f.result.tool_name = f.tool_name
                /\ f.result.kind = (IF made >= 1 /\ passed(made) THEN "Success" ELSE "Failed")
                /\ f.result.kind = "Failed" =>
                      /\ made = N
                      /\ f.result.last_error =
                            (IF N = 0 THEN <<>> ELSE f.calls[N].verdict.err)

\* C25 (witness): a cloud fill whose attempts all failed, the first on an
\* API error and the last on an answer with the root element of another
\* tool, has returned Failed with the error of validate_xml for that
\* answer.
C25_Witness ==
    /\ lastRoute.called
    /\ form_filler = Cloud(MaxRetries)
    /\ lastRoute.fills # <<>>
    /\ lastRoute.fills[1].payload_tag = FileOpsTag
    /\ Len(lastRoute.fills[1].calls) = MaxRetries
    /\ lastRoute.fills[1].replies[1] = LlmErr(RateLimitedText)
    /\ lastRoute.fills[1].replies[MaxRetries] = LlmText(DocShell)
    /\ lastRoute.fills[1].result =
          FillFailed("file-ops", <<"expected root tag <">> \o FileOpsTag
                                 \o <<">, got <">> \o ShellTag \o <<">">>)

\* C25 (witness): a cloud fill that succeeded at the last attempt on the
\* valid answer between a form feed, a no-break space, an ideographic
\* space and a line feed, which strip_xml_fencing has left out.
C25_WitnessSuccess ==
    /\ lastRoute.called
    /\ form_filler = Cloud(MaxRetries)
    /\ lastRoute.fills # <<>>
    /\ Len(lastRoute.fills[1].calls) = MaxRetries
    /\ lastRoute.fills[1].replies[MaxRetries] = LlmText(DocPadded)
    /\ lastRoute.fills[1].result = FillSuccess("file-ops", DocValid)

\* --------------------------------------------------------------- Librarian
\* C26: after curate(.., B) has returned, the sizes of the Active segments
\* sum to at most B, whatever the curation LLM answered and whatever was
\* Active before the call.
C26_ActiveWithinBudget ==
    curation.phase = "returned" => ActiveBytes(curation.after) <= curation.token_budget

\* The ids an answer may name: those of the inventory and one of none of
\* its segments.
AnswerIds == {SegmentIds[i] : i \in DOMAIN SegmentIds} \cup {Chars("msg-old-003")}

\* The answer has no parseable page_in or page_out content: in neither
\* section, from its opening to its closing tag, is there a segment element
\* with an attribute id (the response format of spec 6.3).
NoParseableContent(answer) ==
    \A tag \in {Chars("page_in"), Chars("page_out")} :
        \A i \in DOMAIN answer, j \in DOMAIN answer, k \in DOMAIN answer :
            (i < j /\ j < k /\ answer[i] = SectionOpen(tag) /\ answer[k] = SectionClose(tag))
                => answer[j] \notin {Segment(id) : id \in AnswerIds}

\* C27: when the answer of the curation LLM has no parseable page_in or
\* page_out content, the parsed decision has two empty lists, no segment
\* changes status, curate returns the inventory it found, and the handler
\* goes on to the LLM call of the request.
C27_UnparseableChangesNothing ==
    NoParseableContent(curation.answer) =>
        /\ curation.phase \in {"decided", "applied", "returned"} =>
              /\ curation.decision = CurationDecision(<<>>, <<>>)
              /\ inventory = curation.before
        /\ curation.phase = "returned" =>
              /\ curation.after = curation.before
              /\ handler[curation.by].pc = "lock pool"
              /\ handler[curation.by].result = "none"
              /\ handler[curation.by].curated = SystemContext(curation.before).some

\* C27: curate has returned after an answer whose page_in section is not
\* closed, over an inventory with Active and Shelved segments, and the
\* handler is about to make its LLM call.
C27_Witness ==
    /\ curation.phase = "returned"
    /\ curation.answer = <<SectionOpen(Chars("page_in")), Segment(SegmentIds[1])>>
    /\ curation.before[1].status = "Shelved"
    /\ curation.before[2].status = "Active"
    /\ curation.after = curation.before
    /\ handler[curation.by].pc = "lock pool"

\* -------------------------------------------------------------- LlmHandler
\* C29: a call that ends with a rate-limit or network failure has been
\* sent more than once, and the handler reports it as a handler error.
C29_TransientRetriedThenError ==
    \A h \in Handlers :
        (handler[h].pc = "replied" /\ handler[h].llm.error \in {"RateLimited", "Http"}) =>
            /\ handler[h].llm.requests > 1
            /\ handler[h].result = "Err"

\* C30: a handler task that holds the kernel lock, or that waits for it,
\* holds neither the Librarian mutex nor the LlmPool mutex.
C30_NoHandlerLockAcrossKernelCall ==
    \A h \in Handlers :
        (lock = h \/ handler[h].pc \in {"curate", "decided"}) =>
            libLock # h /\ poolLock # h

\* ------------------------------------------------------------ PortManager
\* Two distinct listeners declare the same port with the same direction.
PortConflict(listeners) ==
    \E a, b \in 1..Len(listeners) :
        /\ listeners[a].name # listeners[b].name
        /\ \E i \in 1..Len(listeners[a].ports), j \in 1..Len(listeners[b].ports) :
              /\ listeners[a].ports[i].port = listeners[b].ports[j].port
              /\ listeners[a].ports[i].direction = listeners[b].ports[j].direction
              /\ ParseDirection(listeners[a].ports[i].direction).some

\* C28: when two distinct listeners of the organism declare the same port
\* with the same direction no pipeline is built, and the error of the build
\* is a port conflict that names both listeners.
C28_PortConflictFailsBuild ==
    PortConflict(port_listeners) =>
        /\ builder.stage # "built"
        /\ (builder.stage = "failed" /\ builder.error[1] # "kernel open failed: ") =>
              /\ builder.error[1] = "port conflict: "
              /\ \A l \in PortListeners : Contains(builder.error, <<l>>)

\* ------------------------------------------------------- cosine_similarity
One32 == FromInt(1)

AllZero(v) == \A i \in 1..Len(v) : v[i] = 0

\* C31: cosine_similarity(a, b) lies in [-1, 1] for vectors of equal
\* length, is 1 for two identical vectors that are not all zeros, and is 0
\* when a vector is all zeros, when the vectors are empty and when their
\* lengths differ.
C31_CosineRangeAndFixedValues ==
    lastCosine.called =>
        LET a == lastCosine.a
            b == lastCosine.b
            sim == lastCosine.result
        IN  /\ Len(a) = Len(b) => ScoreLeq(FromInt(-1), sim) /\ ScoreLeq(sim, One32)
            /\ (a = b /\ ~AllZero(a)) => sim = One32
            /\ (AllZero(a) \/ AllZero(b) \/ Len(a) # Len(b)) => sim = Zero32

\* ------------------------------------------------------------ PortManager
\* C33: after any calls of declare no two distinct listeners hold the same
\* port with the same direction and validate() finds nothing; declare
\* fails exactly when another listener already holds the port in that
\* direction, whatever the protocols, and a failed declare leaves the
\* allocations as they were.
C33_DeclareKeepsPortsApart ==
    /\ \A order \in ListenerOrders : Validate(pm.allocations, order) = <<>>
    /\ \A l1, l2 \in DOMAIN pm.allocations :
          l1 # l2 => \A i \in 1..Len(pm.allocations[l1]), j \in 1..Len(pm.allocations[l2]) :
              \/ pm.allocations[l1][i].port # pm.allocations[l2][j].port
              \/ pm.allocations[l1][i].direction # pm.allocations[l2][j].direction
    /\ pm.last.called =>
          LET held == \E l \in DOMAIN pm.last.before : \E i \in 1..Len(pm.last.before[l]) :
                          /\ l # pm.last.listener
                          /\ pm.last.before[l][i].port = pm.last.decl.port
                          /\ pm.last.before[l][i].direction = pm.last.decl.direction
          IN  /\ pm.last.ok <=> ~held
              /\ ~pm.last.ok => pm.allocations = pm.last.before
              /\ pm.last.ok =>
                    /\ pm.last.listener \in DOMAIN pm.allocations
                    /\ pm.allocations[pm.last.listener][Len(pm.allocations[pm.last.listener])]
                          = pm.last.decl

\* C33: a declare has just failed against a declaration of another
\* listener with a different protocol, while the listener that holds the
\* port has declared it twice.
C33_Witness ==
    /\ pm.last.called
    /\ ~pm.last.ok
    /\ \E l \in DOMAIN pm.allocations :
          /\ l # pm.last.listener
          /\ Len(pm.allocations[l]) = 2
          /\ pm.allocations[l][1].port = pm.allocations[l][2].port
          /\ pm.allocations[l][1].direction = pm.allocations[l][2].direction
          /\ pm.allocations[l][1].port = pm.last.decl.port
          /\ pm.allocations[l][1].direction = pm.last.decl.direction
          /\ pm.allocations[l][1].protocol # pm.last.decl.protocol
          /\ pm.allocations[l][2].protocol # pm.last.decl.protocol

\* C33: two listeners hold the same port, one inbound and one outbound.
C33_WitnessOtherDirection ==
    /\ pm.last.called
    /\ pm.last.ok
    /\ \E l \in DOMAIN pm.last.before :
          /\ l # pm.last.listener
          /\ pm.last.before[l][1].port = pm.last.decl.port
          /\ pm.last.before[l][1].direction # pm.last.decl.direction

\* ---------------------------------------------------------- AgentPipeline
\* C32: an envelope that inject_checked lets into the pipeline is addressed
\* to a listener the profile can reach: the gate passed for one target
\* never admits an envelope addressed to another listener.
C32_GateBoundToEnvelope ==
    [][(InjectCheckedReturned /\ lastInject'.result = "ok") =>
          CanReach(security, lastInject'.profile, lastInject'.to)]_vars

\* ---------------------------------------------------------------------------
\* The names of an index.

IndexNames(idx) == {idx.entries[i].name : i \in DOMAIN idx.entries}

\* The tools of routing_organism() that register_tools registers.
DescribedTools == {"file-ops", "shell"}

\* C34: the names of an EmbeddingIndex are distinct; a register of a name
\* that is present replaces its embedding and leaves len() as it was; after a
\* remove no search and no search_filtered returns the name that was
\* removed; register_tools on an index that already holds the tools of the
\* organism leaves len() as it was.
C34_IndexNamesUnique ==
    [][/\ Cardinality(IndexNames(index')) = Len(index'.entries)
       /\ (lastSearch'.op = "register" /\ index'.entries # <<>>) =>
             LET last == index'.entries[Len(index'.entries)] IN
             /\ last.name \in IndexNames(index) => Len(index'.entries) = Len(index.entries)
             /\ last.name \notin IndexNames(index) =>
                    Len(index'.entries) = Len(index.entries) + 1
             /\ \A i \in DOMAIN index'.entries :
                    index'.entries[i].name = last.name => index'.entries[i].emb = last.emb
       /\ lastSearch'.op = "remove" =>
             /\ IndexNames(index') \subseteq IndexNames(index)
             /\ Cardinality(IndexNames(index) \ IndexNames(index')) <= 1
             /\ \A name \in IndexNames(index) \ IndexNames(index'), query \in Queries :
                    /\ LET any == BestMatch(index', query, {})
                       IN  any.some => any.name # name
                    /\ \A allowed \in {A \in SUBSET ToolNames : name \in A} :
                          LET found == SearchFiltered(index', query, allowed)
                          IN  found.some => found.name # name
       /\ (lastSearch'.op = "register_tools" /\ DescribedTools \subseteq IndexNames(index)) =>
             Len(index'.entries) = Len(index.entries)
      ]_vars

\* C34 (witness): shell was registered twice and then removed; the index
\* holds file-ops alone, and a search_filtered that allows shell has not
\* returned it.
C34_Witness ==
    /\ lastSearch.op = "search_filtered"
    /\ "shell" \in lastSearch.allowed
    /\ lastSearch.query = <<1, 1>>
    /\ IndexNames(index) = {"file-ops"}
    /\ lastSearch.result.some
    /\ lastSearch.result.name = "file-ops"

\* C34 (witness): register_tools has run on an index that held both tools of
\* the organism.
C34_WitnessRerun ==
    /\ lastSearch.op = "register_tools"
    /\ Len(index.entries) = 2
    /\ IndexNames(index) = DescribedTools
\* The rank of a model of the ladder.
ModelRank(model) == CASE model = "haiku" -> 1 [] model = "sonnet" -> 2 [] OTHER -> 3

\* C35: the LLM calls of one fill use haiku for attempts 0 and 1 and sonnet
\* for attempt 2 and every later attempt; the model never goes down the
\* ladder from one attempt to the next and is never opus.
C35_LadderNeverDeescalates ==
    lastFill.called =>
        LET made == lastFill.calls IN
        /\ \A i \in DOMAIN made :
              /\ made[i].model = IF i - 1 < 2 THEN "haiku" ELSE "sonnet"
              /\ made[i].model # "opus"
        /\ \A i \in DOMAIN made, j \in DOMAIN made :
              i < j => ModelRank(made[i].model) <= ModelRank(made[j].model)

\* C35 (witness): a fill of four attempts, the last one beyond the ladder.
C35_Witness ==
    /\ lastFill.called
    /\ Len(lastFill.calls) = 4
    /\ lastFill.calls[4].model = "sonnet"
    /\ lastFill.calls[2].model = "haiku"
\* C40: after every operation of an InputLine the cursor is between 0 and
\* the number of characters of the content and nothing has panicked;
\* delete_back and delete_word_back at the start, delete_forward at the
\* end, move_left at the start and move_right at the end change nothing;
\* set_cursor sets the cursor to the smaller of its argument and the length.
C40_CursorWithinContent ==
    [][/\ 0 <= il'.cursor
       /\ il'.cursor <= Len(il'.content)
       /\ ~il'.panicked
       /\ (il'.op \in {"delete_back", "delete_word_back", "move_left"} /\ il.cursor = 0) =>
             LineOf(il') = LineOf(il)
       /\ (il'.op \in {"delete_forward", "move_right"} /\ il.cursor = Len(il.content)) =>
             LineOf(il') = LineOf(il)
       /\ il'.op = "set_cursor" =>
             /\ il'.content = il.content
             /\ il'.cursor = IF il'.pos <= Len(il.content) THEN il'.pos ELSE Len(il.content)
      ]_vars

\* C40 (witness): set_cursor was called with a position past the end of a
\* content that has a character of two bytes, and the cursor is at the end.
C40_Witness ==
    /\ il.op = "set_cursor"
    /\ il.pos > Len(il.content)
    /\ il.cursor = Len(il.content)
    /\ StrLen(il.content) > Len(il.content)

\* C40 (witness): delete_word_back has stopped after a no-break space, a
\* whitespace character of two bytes, which is all that is left.
C40_WitnessDeleteWordBack ==
    /\ il.op = "delete_word_back"
    /\ il.content = <<"U+00A0">>
    /\ il.cursor = 1

\* C40 (witness): take on a line of one form feed has returned None and
\* left the line as it was.
C40_WitnessTake ==
    /\ il.op = "take"
    /\ il.content = <<"\f">>
    /\ il.taken = <<>>

\* C40 (witness): move_right was called with the cursor at the end.
C40_WitnessMoveRight ==
    /\ il.op = "move_right"
    /\ il.cursor = Len(il.content)
    /\ il.content # <<>>
\* ---------------------------------------------------------------------------
\* The keys that approve and that deny a pending tool approval request.
Approves(key) == (key.code = "Char" /\ key.ch = "1") \/ key.code = "Enter"

Denies(key) == (key.code = "Char" /\ key.ch = "2") \/ key.code = "Esc"

\* C36: while a tool approval request is pending, handle_key takes the
\* request and sends one verdict on its channel for '1' and Enter
\* (Approved) and for '2' and Esc (Denied); every other key but Ctrl+C
\* leaves the request, the input text, the tabs, pending_task and
\* pending_command as they were and sends nothing.
C36_ApprovalOnlyByItsKeys ==
    app.pending_approval.some =>
        \A key \in Keys : \A ext \in Externals(key) :
            LET after == HandleKeyOf(app, key, ext) IN
            IF key = CtrlKey("c") THEN TRUE
            ELSE IF Approves(key) \/ Denies(key)
            THEN /\ ~after.pending_approval.some
                 /\ after.verdicts = Append(app.verdicts,
                                             IF Approves(key) THEN "Approved" ELSE "Denied")
                 /\ Len(after.verdicts) = 1
            ELSE /\ after.pending_approval = app.pending_approval
                 /\ after.verdicts = app.verdicts
                 /\ InputText(after) = InputText(app)
                 /\ after.open_tabs = app.open_tabs
                 /\ after.active_tab = app.active_tab
                 /\ after.pending_task = app.pending_task
                 /\ after.pending_command = app.pending_command

\* C36 (witness): a request was denied while a task was pending, text was
\* in the input and the Threads tab was open.
C36_Witness ==
    /\ ~app.pending_approval.some
    /\ app.verdicts = <<"Denied">>
    /\ app.pending_task.some
    /\ InputText(app) # <<>>
    /\ Len(app.open_tabs) > 1

\* handle_key with the key reaches the match on the key code: no approval is
\* pending, no menu, wizard, shortcut or YAML editor takes the key, and the
\* command popup does not return.
ReachesMainMatch(a, key) ==
    /\ ~(key.code = "Char" /\ key.ch = "c" /\ "CONTROL" \in key.modifiers)
    /\ ~a.pending_approval.some
    /\ key.code # "F10"
    /\ ~("ALT" \in key.modifiers /\ MenuIndex(a, key).some)
    /\ ~a.menu_active
    /\ a.input_mode = "Normal"
    /\ ~CtrlShortcuts(a, key).done
    /\ ~(a.active_tab = UtilityTab("Yaml") /\ a.yaml_editor)
    /\ ~CommandPopup(a, key).done

\* The input has a character that is not whitespace.
NonBlank(input) == \E i \in DOMAIN input : input[i] \notin WhiteSpace

EnterOnTrimmed(before, input, after) ==
    LET text == Trim(input) IN
    text # <<>> =>
        IF StartsWith(text, <<"/">>)
        THEN /\ after.pending_command = Some(text)
             /\ after.pending_task = before.pending_task
        ELSE IF before.agent_status = "Idle"
        THEN /\ after.pending_task = Some(text)
             /\ after.agent_status = "Thinking"
        ELSE /\ InputText(after) = text
             /\ after.pending_task = before.pending_task
             /\ after.agent_status = before.agent_status

C37_WitnessContextTree ==
    /\ app.active_tab = UtilityTab("Threads")
    /\ app.threads_focus = "ContextTree"
    /\ ReachesMainMatch(app, KeyOf("Enter"))
    /\ Trim(InputText(app)) # <<>>
\* ---------------------------------------------------------------------------
\* The tasks whose call of LlmPool::complete is in flight.
InFlight ==
    {h \in Handlers : handler[h].pc \in {"complete", "curate call"}}
        \cup (IF filler.pc = "complete" THEN {FILLER} ELSE {})

\* The task t waits for the mutex of the pool: a form-fill attempt, a
\* handler task for the call of its request, or a handler task in curate
\* for the call of the curation LLM.
Waiting(t) ==
    IF t = FILLER THEN filler.pc = "lock pool"
    ELSE handler[t].pc \in {"lock pool", "snapshot"}

\* C38: at most one call of LlmPool::complete, of a handler task or of a
\* form-fill attempt, is in flight at any time, and the task that makes it
\* holds the mutex of the pool until the call has returned; a task that
\* waits for the mutex gets it in the end.
C38_OnePoolCallAtATime ==
    /\ [](Cardinality(InFlight) <= 1 /\ \A t \in InFlight : poolLock = t)
    /\ \A t \in Handlers \cup {FILLER} : Waiting(t) ~> (poolLock = t)

\* C38 (witness): the call of the curation LLM of a handler task is in
\* flight, under the mutex of the pool, while the other handler task and
\* a form-fill attempt wait for the pool.
C38_WitnessCuration ==
    /\ handler["h1"].pc = "curate call"
    /\ poolLock = "h1"
    /\ handler["h2"].pc = "lock pool"
    /\ filler.pc = "lock pool"

\* C38 (witness): the call of a handler task is in flight while the other
\* handler task and the second attempt of a form fill wait for the pool.
C38_Witness ==
    /\ handler["h1"].pc = "complete"
    /\ poolLock = "h1"
    /\ handler["h2"].pc = "lock pool"
    /\ filler.pc = "lock pool"
    /\ Len(filler.replies) = 1
\* ---------------------------------------------------------------------------
\* C39: every call of LlmHandler::handle returns once, with Ok(Reply): at
\* once with an error reply when the payload does not parse, and otherwise
\* after the call of the pool, with an error reply when that call failed
\* and with the response when it did not; a curation that failed leaves
\* the handler on its way to the call of the pool.
C39_HandleAlwaysReplies ==
    [][\A h \in Handlers :
          /\ \A xml \in LlmRequests : HandleStart(h, xml) =>
                IF ParseLlmRequest(xml).ok
                THEN handler'[h].pc \in {"lock librarian", "lock pool"}
                ELSE /\ handler'[h].pc = "replied"
                     /\ handler'[h].result = "Ok(Reply error)"
          /\ (handler[h].pc # "replied" /\ handler'[h].pc = "replied") =>
                /\ handler[h].pc \in {"idle", "complete"}
                /\ handler'[h].result \in {"Ok(Reply error)", "Ok(Reply response)"}
                /\ handler[h].pc = "complete" =>
                      (handler'[h].result = "Ok(Reply error)" <=> ~handler'[h].llm.ok)
          /\ (handler[h].pc = "replied" /\ handler'[h].pc # "replied") =>
                handler'[h].pc = "idle"
          /\ (handler[h].pc # "idle" /\ handler'[h].pc = "idle") =>
                handler[h].pc = "replied"
          /\ (curation'.phase = "failed" /\ curation'.by = h) =>
                handler'[h].pc = "lock pool" /\ libLock' # h
          /\ (handler[h].pc = "lock pool" /\ handler'[h].pc # "lock pool") =>
                handler'[h].pc = "complete"
      ]_vars

\* C39 (witness): with a Librarian attached, a handler task has answered a
\* call of the pool that failed on a 200 response whose body is no
\* MessagesResponse with an error reply, while the curation of the other
\* task has failed and that task goes on to the call of the pool.
C39_Witness ==
    /\ librarian
    /\ handler["h1"].pc = "replied"
    /\ handler["h1"].llm = LlmError("InvalidResponse")
    /\ handler["h1"].result = "Ok(Reply error)"
    /\ curation.phase = "failed"
    /\ curation.by = "h2"
    /\ handler["h2"].pc = "lock pool"
====
